---- MODULE Spec2Model ----
(***************************************************************************)
(* Annotation lifecycle of the hohoff editor: the CodeMirror view          *)
(* (document, tracked annotation field, undo history), the module-level    *)
(* auto-dismiss timers and the zustand store, as one state machine.        *)
(*                                                                         *)
(* A document is a sequence of characters.  A change set is the section    *)
(* list of a CodeMirror ChangeSet: a section either keeps `len` characters *)
(* or replaces `len` characters by `text`.                                 *)
(*                                                                         *)
(* Time advances in ticks of 600 ms.  Every recorded transaction is its    *)
(* own history event: user edits are taken to be further apart than the    *)
(* history's newGroupDelay or not adjacent, so none is joined to the event *)
(* before it.  Selections, and the selection-only events the history keeps *)
(* for them, are left out.  The files on disk keep their content (no save).*)
(*                                                                         *)
(* SpecStore is the store with the AI requests and the session writer:     *)
(* the streamAIMessage bridge of the preload script, the main process's    *)
(* stream handler, the chat panel's and the toolbar's requests, the        *)
(* feedback cards' analyses and scheduleSave.  Its time advances in ticks  *)
(* of 500 ms, and a timer that is due runs before any other renderer step. *)
(* It starts from a restored session, opens files only while no request is *)
(* in flight and has no user edits.  A chunk is named by the stream that   *)
(* produced it and its number in that stream.  SpecStream is the same      *)
(* without the clock and with what the user does while a request streams:  *)
(* edits, a switch to another file, the cancelling of a card's analysis.   *)
(*                                                                         *)
(* SpecParse and SpecTyped run the annotation parser.  A response is the   *)
(* sequence of the matches of quotePattern, each with its trimmed quoted   *)
(* text and the pieces of the response before it; the pattern's bounds on  *)
(* the length of a quoted text are left out.  SpecDeco and SpecPair open   *)
(* the files of a restored session.                                        *)
(***************************************************************************)
EXTENDS Integers, Sequences, FiniteSets, TLC

\* ---------------------------------------------------------------- bounds
MaxLen == 3        \* longest document the model lets an edit produce
MaxIns == 1        \* longest text one user edit inserts
MaxOps == 4        \* most edits, applies, analyses and file loads in a run
MaxParsed == 1     \* most annotations one AI response yields
MaxRequests == 2   \* most streamAIMessage calls in a run
MaxChunks == 1     \* most chunks the main process sends for one stream
MaxPair == 2       \* annotations the session of the pair specification restores
MaxDocLen == 5     \* longest document the parser specification draws
MaxQuoteLen == 6   \* longest quoted text in a response
MaxQuotes == 2     \* most quoted texts in a response
MaxContext == 2    \* most pieces of a response before a quoted text
MaxOpens == 2      \* most file loads and edits in a run of the store specification

\* ------------------------------------------------------- program constants
\* EDIT_DISMISS_MS = 1200, counted in ticks of 600 ms.
EDIT_DISMISS_TICKS == 2
\* The delay of scheduleSave, 1500 ms, counted in ticks of 500 ms.
SAVE_TICKS == 3

\* findNormalized: the fewest words a normalized quote must have, the words
\* of the anchor and the characters added to the anchor's slice.
MIN_WORDS == 3
ANCHOR_WORDS == 4
ANCHOR_SLACK == 20
\* parseAnnotationsFromAIResponse: the characters before a match that
\* classifyType is given.
CONTEXT_CHARS == 200

Chars == {"a", "b"}
Paths == {"A", "B"}
NoFile == "null"

\* window.api.readFile: the content of each draft on disk.
FileContent(p) == IF p = "A" THEN <<"a", "b">> ELSE <<"b">>

Min(x, y) == IF x < y THEN x ELSE y
Max(x, y) == IF x > y THEN x ELSE y

Slice(s, from, to) == SubSeq(s, from + 1, to)

\* All texts of length 0..n over Chars.
RECURSIVE TextsUpTo(_)
TextsUpTo(n) ==
  IF n = 0 THEN {<<>>}
  ELSE LET shorter == TextsUpTo(n - 1)
       IN shorter \cup {Append(s, c) : s \in {x \in shorter : Len(x) = n - 1}, c \in Chars}

\* ----------------------------------------------------------- change sets
Keep(n) == [len |-> n, keep |-> TRUE, text |-> <<>>]
Repl(n, txt) == [len |-> n, keep |-> FALSE, text |-> txt]

\* ins of a section as CodeMirror stores it: -1 for an unchanged section.
Ins(sec) == IF sec.keep THEN -1 ELSE Len(sec.text)

\* addSection / addInsert of @codemirror/state.
AddSection(secs, sec) ==
  IF sec.len = 0 /\ Ins(sec) <= 0 THEN secs
  ELSE IF secs = <<>> THEN <<sec>>
  ELSE LET last == secs[Len(secs)]
           init == SubSeq(secs, 1, Len(secs) - 1)
       IN IF Ins(sec) <= 0 /\ Ins(sec) = Ins(last)
            THEN Append(init, [last EXCEPT !.len = last.len + sec.len])
          ELSE IF sec.len = 0 /\ last.len = 0
            THEN Append(init, [last EXCEPT !.text = last.text \o sec.text])
          ELSE Append(secs, sec)

\* ChangeSet.of for one change {from, to, insert} on a document of length n.
ChangeOf(n, from, to, insert) ==
  AddSection(AddSection(AddSection(<<>>, Keep(from)), Repl(to - from, insert)), Keep(n - to))

\* ChangeSet.empty
IsEmptyChange(cs) == \A i \in 1..Len(cs) : cs[i].keep

RECURSIVE LenBefore(_)
LenBefore(cs) == IF cs = <<>> THEN 0 ELSE cs[1].len + LenBefore(Tail(cs))

RECURSIVE LenAfter(_)
LenAfter(cs) ==
  IF cs = <<>> THEN 0
  ELSE (IF cs[1].keep THEN cs[1].len ELSE Len(cs[1].text)) + LenAfter(Tail(cs))

\* ChangeSet.apply
RECURSIVE ApplyChanges(_, _)
ApplyChanges(cs, doc) ==
  IF cs = <<>> THEN <<>>
  ELSE LET sec == cs[1]
           rest == ApplyChanges(Tail(cs), Slice(doc, sec.len, Len(doc)))
       IN IF sec.keep THEN Slice(doc, 0, sec.len) \o rest ELSE sec.text \o rest

\* ChangeSet.invert
RECURSIVE Invert(_, _)
Invert(cs, doc) ==
  IF cs = <<>> THEN <<>>
  ELSE LET sec == cs[1]
           rest == Invert(Tail(cs), Slice(doc, sec.len, Len(doc)))
       IN IF sec.keep THEN <<sec>> \o rest
          ELSE <<Repl(Len(sec.text), Slice(doc, 0, sec.len))>> \o rest

\* ChangeDesc.mapPos(pos, assoc) in MapMode.Simple; posA and posB are the
\* lengths already passed in the old and the new document.
RECURSIVE MapPosFrom(_, _, _, _, _)
MapPosFrom(cs, pos, assoc, posA, posB) ==
  IF cs = <<>> THEN posB
  ELSE LET sec == cs[1]
           endA == posA + sec.len
       IN IF sec.keep
            THEN IF endA > pos THEN posB + (pos - posA)
                 ELSE MapPosFrom(Tail(cs), pos, assoc, endA, posB + sec.len)
          ELSE IF endA > pos \/ (endA = pos /\ assoc < 0 /\ sec.len = 0)
            THEN IF posA = pos \/ assoc < 0 THEN posB ELSE posB + Len(sec.text)
          ELSE MapPosFrom(Tail(cs), pos, assoc, endA, posB + Len(sec.text))

MapPos(cs, pos, assoc) == MapPosFrom(cs, pos, assoc, 0, 0)

\* SectionIter of @codemirror/state: i is the section under the iterator
\* (past the end when done), len what is left of it, off what was consumed.
It(cs, i) == [i |-> i, len |-> IF i <= Len(cs) THEN cs[i].len ELSE 0, off |-> 0]

ItIns(cs, it) == IF it.i > Len(cs) THEN -2 ELSE Ins(cs[it.i])

Forward(cs, it, n) ==
  IF n = it.len THEN It(cs, it.i + 1)
  ELSE [it EXCEPT !.len = @ - n, !.off = @ + n]

\* mapSet, second branch: skip a change of B of length `len`, emitting the
\* insertions of A that it covers.
RECURSIVE SkipB(_, _, _, _, _)
SkipB(A, a, len, inserted, out) ==
  IF len = 0 \/ a.i > Len(A) THEN [a |-> a, inserted |-> inserted, out |-> out]
  ELSE LET piece == Min(a.len, len)
           doIns == ItIns(A, a) >= 0 /\ inserted < a.i /\ a.len <= piece
       IN SkipB(A, Forward(A, a, piece), len - piece,
                IF doIns THEN a.i ELSE inserted,
                IF doIns THEN AddSection(out, Repl(0, A[a.i].text)) ELSE out)

\* mapSet, third branch: the part of a change of A up to the next
\* non-deletion change of B.
RECURSIVE TakeA(_, _, _, _)
TakeA(B, b, left, len) ==
  IF left = 0 THEN [b |-> b, left |-> left, len |-> len]
  ELSE IF ItIns(B, b) = -1
    THEN LET piece == Min(left, b.len)
         IN TakeA(B, Forward(B, b, piece), left - piece, len + piece)
  ELSE IF ItIns(B, b) = 0 /\ b.len < left
    THEN TakeA(B, It(B, b.i + 1), left - b.len, len)
  ELSE [b |-> b, left |-> left, len |-> len]

RECURSIVE MapSetLoop(_, _, _, _, _, _, _)
MapSetLoop(A, B, before, a, b, inserted, out) ==
  LET ains == ItIns(A, a)
      bins == ItIns(B, b)
  IN IF (ains = -2 /\ b.len > 0) \/ (bins = -2 /\ a.len > 0) THEN out
     ELSE IF ains = -1 /\ bins = -1
       THEN LET n == Min(a.len, b.len)
            IN MapSetLoop(A, B, before, Forward(A, a, n), Forward(B, b, n), inserted,
                          AddSection(out, Keep(n)))
     ELSE IF bins >= 0 /\ (ains < 0 \/ inserted = a.i
                           \/ (a.off = 0 /\ (b.len < a.len \/ (b.len = a.len /\ ~before))))
       THEN LET r == SkipB(A, a, b.len, inserted, AddSection(out, Keep(bins)))
            IN MapSetLoop(A, B, before, r.a, It(B, b.i + 1), r.inserted, r.out)
     ELSE IF ains >= 0
       THEN LET r == TakeA(B, b, a.len, 0)
                txt == IF inserted < a.i THEN A[a.i].text ELSE <<>>
            IN MapSetLoop(A, B, before, Forward(A, a, a.len - r.left), r.b, a.i,
                          AddSection(out, Repl(r.len, txt)))
     ELSE out

\* ChangeSet.map / ChangeDesc.mapDesc: A as it applies after B, both
\* starting from the same document.
MapSet(A, B, before) == MapSetLoop(A, B, before, It(A, 1), It(B, 1), 0, <<>>)

\* ------------------------------------------------------------------ state
VARIABLES
  doc,                \* EditorView: the document
  tracked,            \* EditorView: rawAnnotationsField
  done,               \* EditorView: undo branch of the history field
  undone,             \* EditorView: redo branch of the history field
  timerQueue,         \* pending setTimeout callbacks, in the order they were set
  dismissTimers,      \* the dismissTimers map: annotation id -> timer handle, 0 if none
  activeFilePath,     \* store
  activeFileContent,  \* store
  annotations,        \* store: the active annotation list
  annotationsByFile,  \* store: the per-file annotation state
  ops,                \* edits, applies, analyses and file loads so far
  last,               \* the last operation, with the editor state it started from
  hitAge,             \* per id: ticks since the first and the last overlapping edit
  chatHistory,        \* store: the messages of the active file
  chatSessionsByFile, \* store: the messages of every file
  isAILoading,        \* store
  aiError,            \* store
  requests,           \* renderer: the streamAIMessage calls made so far and their callers
  listeners,          \* preload: the calls whose handlers are on the ai:* channels
  channel,            \* the ai:* events sent by the main process and not yet delivered
  mainStreams,        \* main process: the streams being produced
  saveQueue,          \* pending callbacks of the session writer's setTimeout
  sessionTimer,       \* _sessionTimer: the handle scheduleSave holds, 0 if none
  session,            \* the session file
  saveAge,            \* ticks since the last scheduleSave and since the last change of
                      \* persisted state, the writes since the timer was last idle,
                      \* and whether the last step was a write
  atRequest           \* the annotation store when the panel's request was made

aiVars == <<chatHistory, chatSessionsByFile, isAILoading, aiError, requests, listeners,
            channel, mainStreams, saveQueue, sessionTimer, session, saveAge, atRequest>>

vars == <<doc, tracked, done, undone, timerQueue, dismissTimers, activeFilePath,
          activeFileContent, annotations, annotationsByFile, ops, last, hitAge,
          chatHistory, chatSessionsByFile, isAILoading, aiError, requests, listeners,
          channel, mainStreams, saveQueue, sessionTimer, session, saveAge, atRequest>>

AnnIds == 0..(Max(MaxParsed, MaxPair) - 1)

Ann(id, from, to) ==
  [id |-> id, type |-> "style", from |-> from, to |-> to, applied |-> FALSE, dismissed |-> FALSE]

NoHit == [first |-> -1, last |-> -1]

\* What a history event came from: the transaction and the tracked list it
\* started from.
Was(kind, id) ==
  [kind |-> kind, id |-> id, tracked |-> IF kind = "autoDismiss" THEN tracked ELSE <<>>]

NoOp ==
  [op |-> "init", id |-> -1, doc |-> <<>>, tracked |-> <<>>, fromA |-> 0, toA |-> 0,
   insert |-> <<>>, age |-> NoHit, after |-> "init", undid |-> [kind |-> "none", id |-> -1, tracked |-> <<>>]]

Did(name, id) ==
  [NoOp EXCEPT !.op = name, !.id = id, !.tracked = tracked,
               !.doc = IF name \in {"apply", "load"} THEN doc ELSE <<>>]

NoSession == [activeFilePath |-> NoFile,
              annotationsByFile |-> [p \in Paths |-> [has |-> FALSE, annotations |-> <<>>]],
              chatSessionsByFile |-> [p \in Paths |-> <<>>]]

NoAge == [save |-> -1, change |-> -1, writes |-> 0, wrote |-> FALSE]

NoBefore == [annotations |-> <<>>, annotationsByFile |-> NoSession.annotationsByFile]

\* The chat, the requests and the session writer after construction.
InitAI ==
  /\ chatHistory = <<>>
  /\ chatSessionsByFile = [p \in Paths |-> <<>>]
  /\ isAILoading = FALSE
  /\ aiError = "null"
  /\ requests = <<>>
  /\ listeners = <<>>
  /\ channel = <<>>
  /\ mainStreams = <<>>
  /\ saveQueue = <<>>
  /\ sessionTimer = 0
  /\ session = NoSession
  /\ saveAge = NoAge
  /\ atRequest = NoBefore

Init ==
  /\ InitAI
  /\ doc = <<>>
  /\ tracked = <<>>
  /\ done = <<>>
  /\ undone = <<>>
  /\ timerQueue = <<>>
  /\ dismissTimers = [id \in AnnIds |-> 0]
  /\ activeFilePath = NoFile
  /\ activeFileContent = <<>>
  /\ annotations = <<>>
  /\ annotationsByFile = [p \in Paths |-> [has |-> FALSE, annotations |-> <<>>]]
  /\ ops = 0
  /\ last = NoOp
  /\ hitAge = [id \in AnnIds |-> NoHit]

\* ------------------------------------------------------- the editor fields
\* Mutant: positions past the start of the change are shifted by the change
\* in length instead of being mapped.
MapAnnotationsShift(anns, cs) ==
  IF IsEmptyChange(cs) \/ anns = <<>> THEN anns
  ELSE LET start == IF cs[1].keep THEN cs[1].len ELSE 0
           delta == LenAfter(cs) - LenBefore(cs)
       IN [i \in 1..Len(anns) |->
             [anns[i] EXCEPT !.from = IF start < @ THEN @ + delta ELSE @,
                             !.to = IF start < @ THEN @ + delta ELSE @]]

\* Mutant: `to` is mapped with the association of `from`.
MapAnnotationsToBefore(anns, cs) ==
  IF IsEmptyChange(cs) \/ anns = <<>> THEN anns
  ELSE [i \in 1..Len(anns) |->
          [anns[i] EXCEPT !.from = MapPos(cs, anns[i].from, -1),
                          !.to = MapPos(cs, anns[i].to, -1)]]

\* Mutant: only `to` is mapped.
MapAnnotationsKeepFrom(anns, cs) ==
  IF IsEmptyChange(cs) \/ anns = <<>> THEN anns
  ELSE [i \in 1..Len(anns) |-> [anns[i] EXCEPT !.to = MapPos(cs, anns[i].to, 1)]]

\* rawAnnotationsField.update on a transaction without setAnnotationsEffect.
MapAnnotations(anns, cs) ==
  IF IsEmptyChange(cs) \/ anns = <<>> THEN anns
  ELSE [i \in 1..Len(anns) |->
          [anns[i] EXCEPT !.from = MapPos(cs, anns[i].from, -1),
                          !.to = MapPos(cs, anns[i].to, 1)]]

\* mapPos throws a RangeError for a position past the end of the document;
\* the transaction is then not applied.
Mappable(anns, n) == \A i \in 1..Len(anns) : anns[i].from <= n /\ anns[i].to <= n

HasId(anns, id) == \E i \in 1..Len(anns) : anns[i].id = id

Without(anns, id) == SelectSeq(anns, LAMBDA a : a.id # id)

\* new Map(tracked.map(a => [a.id, a])).get(id): the last tracked copy of id.
TrackedById(trk, id) ==
  trk[CHOOSE j \in 1..Len(trk) :
        /\ trk[j].id = id
        /\ \A k \in (j + 1)..Len(trk) : trk[k].id # id]

\* Mutant: the incoming list is dispatched as it is.
SyncEffectIncoming(trk, anns) == anns

\* The annotations sync effect: the store's list with every tracked id
\* replaced by its tracked copy.
SyncEffect(trk, anns) ==
  [i \in 1..Len(anns) |-> IF HasId(trk, anns[i].id) THEN TrackedById(trk, anns[i].id) ELSE anns[i]]

\* Mutant: the inverse effect holds the list of the end state.
AnnotationHistoryAfter(docChanged, hasEffect, isAutoDismiss, startTracked, endTracked) ==
  IF (docChanged /\ hasEffect) \/ isAutoDismiss THEN <<endTracked>> ELSE <<>>

\* annotationHistory: the inverse effects recorded for a transaction, given
\* the tracked list of its start state and of its end state.
AnnotationHistory(docChanged, hasEffect, isAutoDismiss, startTracked, endTracked) ==
  IF (docChanged /\ hasEffect) \/ isAutoDismiss THEN <<startTracked>> ELSE <<>>

\* HistEvent.fromTransaction and the push onto a branch (none when the
\* transaction has neither changes nor inverse effects).
Pushed(branch, inverse, effects, was) ==
  IF IsEmptyChange(inverse) /\ effects = <<>> THEN branch
  ELSE Append(branch, [changes |-> inverse, effects |-> effects, was |-> was])

\* HistoryState.addMapping: a change that is not recorded rebases both
\* branches, top event first; an event left without changes and effects is
\* dropped.
RECURSIVE MapBranch(_, _)
MapBranch(branch, mapping) ==
  IF branch = <<>> THEN <<>>
  ELSE LET e == branch[Len(branch)]
           mapped == MapSet(e.changes, mapping, FALSE)
           before == MapSet(mapping, e.changes, TRUE)
           rest == MapBranch(SubSeq(branch, 1, Len(branch) - 1), before)
       IN IF ~IsEmptyChange(mapped) \/ e.effects # <<>>
            THEN Append(rest, [e EXCEPT !.changes = mapped])
          ELSE rest

\* The history field on a transaction with changes `cs`: one annotated
\* addToHistory = false rebases the branch, any other is recorded.
HistoryDone(branch, cs, addToHistory, effects, was) ==
  IF addToHistory THEN Pushed(branch, Invert(cs, doc), effects, was)
  ELSE IF IsEmptyChange(cs) THEN branch
  ELSE MapBranch(branch, cs)

\* ------------------------------------------------------------- the timers
FreeHandle(q) == CHOOSE h \in 1..(Len(q) + 1) : \A i \in 1..Len(q) : q[i].h # h

\* Mutant: the timer is left pending.
CancelPendingDismissKeep(tq, id) == tq

\* cancelPendingDismiss
CancelPendingDismiss(tq, id) ==
  IF tq.map[id] # 0
    THEN [q |-> SelectSeq(tq.q, LAMBDA tm : tm.h # tq.map[id]), map |-> [tq.map EXCEPT ![id] = 0]]
  ELSE tq

\* Mutant: the timer already pending for the id is not cleared.
SchedulePendingDismissNoClear(tq, id) ==
  LET h == FreeHandle(tq.q)
  IN [q |-> Append(tq.q, [h |-> h, id |-> id, left |-> EDIT_DISMISS_TICKS, path |-> activeFilePath]),
      map |-> [tq.map EXCEPT ![id] = h]]

\* schedulePendingDismiss; `path` notes the file that was active when the
\* timer was set.
SchedulePendingDismiss(tq, id) ==
  LET cleared == SelectSeq(tq.q, LAMBDA tm : tm.h # tq.map[id])
      h == FreeHandle(cleared)
  IN [q |-> Append(cleared, [h |-> h, id |-> id, left |-> EDIT_DISMISS_TICKS, path |-> activeFilePath]),
      map |-> [tq.map EXCEPT ![id] = h]]

\* Mutant: only a change strictly inside the range counts.
OverlapsInside(fromA, toA, ann) == fromA > ann.from /\ toA < ann.to

\* The half-open overlap test of the update listener.
Overlaps(fromA, toA, ann) == fromA < ann.to /\ toA > ann.from

\* The update listener's loop over the pre-edit annotations for one changed
\* range.
RECURSIVE ScheduleHits(_, _, _, _)
ScheduleHits(tq, pre, fromA, toA) ==
  IF pre = <<>> THEN tq
  ELSE ScheduleHits(IF Overlaps(fromA, toA, pre[1]) THEN SchedulePendingDismiss(tq, pre[1].id) ELSE tq,
                    Tail(pre), fromA, toA)

\* Mutant: the addToHistory annotation is not looked at.
ListenerTimersAll(tq, pre, fromA, toA, addToHistory) == ScheduleHits(tq, pre, fromA, toA)

\* The auto-dismiss branch of the update listener for a transaction that
\* replaces [fromA, toA): transactions annotated addToHistory = false are
\* skipped.
ListenerTimers(tq, pre, fromA, toA, addToHistory) ==
  IF addToHistory THEN ScheduleHits(tq, pre, fromA, toA) ELSE tq

\* The undo/redo branch of the update listener: every timer of the map is
\* cancelled.
RECURSIVE CancelAll(_, _)
CancelAll(tq, ids) ==
  IF ids = {} THEN tq
  ELSE LET id == CHOOSE x \in ids : TRUE
       IN CancelAll(CancelPendingDismiss(tq, id), ids \ {id})

HitIds(pre, fromA, toA) == {pre[i].id : i \in {j \in 1..Len(pre) : Overlaps(fromA, toA, pre[j])}}

Timers == [q |-> timerQueue, map |-> dismissTimers]

\* hitAge once the timers are `after`, the ids in `hits` having been
\* overlapped by this transaction: an id without a timer has no open window.
AgesAfter(hits, after) ==
  [id \in AnnIds |->
     IF after.map[id] = 0 /\ ~\E i \in 1..Len(after.q) : after.q[i].id = id THEN NoHit
     ELSE IF id \in hits
       THEN [first |-> IF hitAge[id].first < 0 THEN 0 ELSE hitAge[id].first, last |-> 0]
     ELSE hitAge[id]]

\* ---------------------------------------------------------------- the store
ExistingApplied(byFile, path) == SelectSeq(byFile[path].annotations, LAMBDA a : a.applied)

\* setAnnotations
ByFileAfterSet(byFile, path, anns) ==
  IF path = NoFile THEN byFile
  ELSE [byFile EXCEPT ![path] = [has |-> TRUE, annotations |-> ExistingApplied(byFile, path) \o anns]]

\* removeAnnotation
ByFileAfterRemove(byFile, path, anns) ==
  IF path = NoFile THEN byFile
  ELSE [byFile EXCEPT ![path] = [has |-> TRUE, annotations |-> anns]]

\* clearAnnotations
ByFileAfterClear(byFile, path) ==
  IF path = NoFile THEN byFile
  ELSE [byFile EXCEPT ![path] = [has |-> TRUE, annotations |-> <<>>]]

\* Mutant: the record is dropped from the file's list instead of being marked.
ByFileAfterAppliedDropped(byFile, path, id) ==
  IF path = NoFile \/ ~byFile[path].has THEN byFile
  ELSE [byFile EXCEPT ![path].annotations = Without(@, id)]

\* markAnnotationApplied
ByFileAfterApplied(byFile, path, id) ==
  IF path = NoFile \/ ~byFile[path].has THEN byFile
  ELSE [byFile EXCEPT ![path].annotations =
          [i \in 1..Len(@) |-> IF @[i].id = id THEN [@[i] EXCEPT !.applied = TRUE] ELSE @[i]]]

\* --------------------------------------------------------------- actions
\* The user types, deletes, cuts or pastes: one recorded transaction that
\* replaces [fromA, toA) by `insert`.
UserEdit(fromA, toA, insert) ==
  LET cs == ChangeOf(Len(doc), fromA, toA, insert)
      tq == ListenerTimers(Timers, tracked, fromA, toA, TRUE)
  IN /\ ~IsEmptyChange(cs)
     /\ LenAfter(cs) <= MaxLen
     /\ ops < MaxOps
     /\ ops' = ops + 1
     /\ tracked # <<>> => Mappable(tracked, Len(doc))
     /\ doc' = ApplyChanges(cs, doc)
     /\ tracked' = MapAnnotations(tracked, cs)
     /\ done' = HistoryDone(done, cs, TRUE, AnnotationHistory(TRUE, FALSE, FALSE, tracked, tracked'), Was("edit", -1))
     /\ undone' = <<>>
     /\ activeFileContent' = doc'
     /\ timerQueue' = tq.q
     /\ dismissTimers' = tq.map
     /\ hitAge' = AgesAfter(HitIds(tracked, fromA, toA), tq)
     /\ last' = [Did("edit", -1) EXCEPT !.fromA = fromA, !.toA = toA, !.insert = insert]
     /\ UNCHANGED <<activeFilePath, annotations, annotationsByFile>>
     /\ UNCHANGED aiVars

\* 600 ms pass; a timer that is due runs before more time passes.
Tick ==
  /\ timerQueue # <<>>
  /\ \A i \in 1..Len(timerQueue) : timerQueue[i].left > 0
  /\ timerQueue' = [i \in 1..Len(timerQueue) |-> [timerQueue[i] EXCEPT !.left = @ - 1]]
  /\ hitAge' = [id \in AnnIds |->
                  IF hitAge[id].first < 0 THEN hitAge[id]
                  ELSE [first |-> hitAge[id].first + 1, last |-> hitAge[id].last + 1]]
  /\ UNCHANGED <<doc, tracked, done, undone, dismissTimers, activeFilePath,
                 activeFileContent, annotations, annotationsByFile, ops, last>>
  /\ UNCHANGED aiVars

\* The callback of schedulePendingDismiss runs for the oldest due timer: a
\* transaction tagged userDismissAnnotation that filters the id out of the
\* tracked list; the update listener then copies the tracked list to the
\* store, and the sync effect runs on the new store list.
TimerFire ==
  LET tm == timerQueue[1]
      remaining == Without(tracked, tm.id)
      tq == [q |-> Tail(timerQueue), map |-> [dismissTimers EXCEPT ![tm.id] = 0]]
  IN /\ timerQueue # <<>>
     /\ tm.left = 0
     /\ doc' = doc
     /\ done' = HistoryDone(done, <<Keep(Len(doc))>>, TRUE,
                            AnnotationHistory(FALSE, TRUE, TRUE, tracked, remaining),
                            Was("autoDismiss", tm.id))
     /\ undone' = <<>>
     /\ annotations' = remaining
     /\ annotationsByFile' = ByFileAfterSet(annotationsByFile, activeFilePath, remaining)
     /\ tracked' = SyncEffect(remaining, remaining)
     /\ timerQueue' = tq.q
     /\ dismissTimers' = tq.map
     /\ hitAge' = AgesAfter({}, tq)
     /\ last' = IF HasId(tracked, tm.id)
                  THEN [Did("autoDismiss", tm.id) EXCEPT !.age = hitAge[tm.id]]
                ELSE last
     /\ UNCHANGED <<activeFilePath, activeFileContent, ops>>
     /\ UNCHANGED aiVars

\* applyAnnotation(ann, suggestion), ann being the copy the caller holds:
\* the feedback panel's card holds the store's copy, the tooltip the first
\* tracked annotation under the pointer.
UnderPointer(pos) ==
  {tracked[i] : i \in {j \in 1..Len(tracked) :
       /\ pos >= tracked[j].from /\ pos <= tracked[j].to
       /\ \A k \in 1..(j - 1) : ~(pos >= tracked[k].from /\ pos <= tracked[k].to)}}

Held == {annotations[i] : i \in 1..Len(annotations)}
          \cup UNION {UnderPointer(pos) : pos \in 0..Len(doc)}

ApplyAnnotation(ann, suggestion) ==
  LET cs == ChangeOf(Len(doc), ann.from, ann.to, suggestion)
      others == Without(annotations, ann.id)
      remaining == [i \in 1..Len(others) |->
                      [others[i] EXCEPT !.from = MapPos(cs, others[i].from, -1),
                                        !.to = MapPos(cs, others[i].to, -1)]]
      tq == ListenerTimers(Timers, tracked, ann.from, ann.to, TRUE)
      marked == activeFilePath # NoFile /\ annotationsByFile[activeFilePath].has
      inStore == IF marked THEN Without(annotations, ann.id) ELSE annotations
  IN /\ ann \in Held
     /\ suggestion # <<>>
     /\ ann.from <= ann.to /\ ann.to <= Len(doc)
     /\ Mappable(others, Len(doc))
     /\ LenAfter(cs) <= MaxLen
     /\ ops < MaxOps
     /\ ops' = ops + 1
     /\ doc' = ApplyChanges(cs, doc)
     /\ done' = HistoryDone(done, cs, TRUE, AnnotationHistory(TRUE, TRUE, FALSE, tracked, remaining),
                            Was("apply", ann.id))
     /\ undone' = <<>>
     /\ activeFileContent' = doc'
     /\ timerQueue' = tq.q
     /\ dismissTimers' = tq.map
     /\ hitAge' = AgesAfter(HitIds(tracked, ann.from, ann.to), tq)
     /\ annotations' = inStore
     /\ annotationsByFile' = ByFileAfterApplied(annotationsByFile, activeFilePath, ann.id)
     /\ tracked' = IF marked THEN SyncEffect(remaining, inStore) ELSE remaining
     /\ last' = [Did("apply", ann.id) EXCEPT !.fromA = ann.from, !.toA = ann.to, !.insert = suggestion]
     /\ UNCHANGED activeFilePath
     /\ UNCHANGED aiVars

\* Mutant: the store is left as it was.
StoreAfterUndoRedoStale(isNew, curr) == annotations

\* The undo/redo branch of the update listener: the tracked list is copied
\* to the store when the field value is a new array.
StoreAfterUndoRedo(isNew, curr) == IF isNew THEN curr ELSE annotations

\* undo / redo: the top event of `from` is applied as one transaction, and
\* the update listener cancels every timer and copies the tracked list to
\* the store when the field value is a new array; the sync effect then runs
\* on the new store list.
Pop(from, name) ==
  LET e == from[Len(from)]
      cs == e.changes
      docChanged == ~IsEmptyChange(cs)
      hasEffect == e.effects # <<>>
      curr == IF hasEffect THEN e.effects[1] ELSE MapAnnotations(tracked, cs)
      isNew == hasEffect \/ (docChanged /\ tracked # <<>>)
      tq == CancelAll(Timers, AnnIds)
  IN /\ from # <<>>
     /\ (docChanged /\ ~hasEffect /\ tracked # <<>>) => Mappable(tracked, Len(doc))
     /\ LenAfter(cs) <= MaxLen
     /\ doc' = ApplyChanges(cs, doc)
     /\ activeFileContent' = IF docChanged THEN doc' ELSE activeFileContent
     /\ timerQueue' = tq.q
     /\ dismissTimers' = tq.map
     /\ hitAge' = AgesAfter({}, tq)
     /\ annotations' = StoreAfterUndoRedo(isNew, curr)
     /\ annotationsByFile' = IF isNew THEN ByFileAfterSet(annotationsByFile, activeFilePath, curr)
                             ELSE annotationsByFile
     /\ tracked' = IF isNew THEN SyncEffect(curr, curr) ELSE curr
     /\ last' = [NoOp EXCEPT !.op = name, !.undid = e.was,
                              !.after = IF last.op = "apply" THEN "apply" ELSE "other",
                              !.id = IF last.op = "apply" THEN last.id ELSE -1,
                              !.doc = IF last.op = "apply" THEN last.doc ELSE <<>>,
                              !.tracked = IF last.op = "apply" THEN last.tracked ELSE <<>>]
     /\ UNCHANGED <<activeFilePath, ops>>
     /\ UNCHANGED aiVars

\* The inverse of the popped event, pushed on the other branch.
Inverse(e, branch) ==
  Pushed(branch, Invert(e.changes, doc),
         AnnotationHistory(~IsEmptyChange(e.changes), e.effects # <<>>, FALSE, tracked,
                           IF e.effects # <<>> THEN e.effects[1] ELSE MapAnnotations(tracked, e.changes)),
         e.was)

Undo ==
  /\ Pop(done, "undo")
  /\ done' = SubSeq(done, 1, Len(done) - 1)
  /\ undone' = Inverse(done[Len(done)], undone)

Redo ==
  /\ Pop(undone, "redo")
  /\ undone' = SubSeq(undone, 1, Len(undone) - 1)
  /\ done' = Inverse(undone[Len(undone)], done)

\* A file is opened from the file tree or restored with the session:
\* setActiveFile, then the file-change effect replaces the whole document in
\* a transaction annotated addToHistory = false, then the sync effect runs on
\* the store's list for that file.
LoadFile(path) ==
  LET content == FileContent(path)
      cs == IF doc # content THEN ChangeOf(Len(doc), 0, Len(doc), content) ELSE <<Keep(Len(doc))>>
      anns == SelectSeq(annotationsByFile[path].annotations, LAMBDA a : ~a.applied)
      tq == IF doc # content THEN ListenerTimers(Timers, tracked, 0, Len(doc), FALSE) ELSE Timers
  IN /\ path # activeFilePath
     /\ ops < MaxOps
     /\ ops' = ops + 1
     /\ (doc # content /\ tracked # <<>>) => Mappable(tracked, Len(doc))
     /\ activeFilePath' = path
     /\ activeFileContent' = content
     /\ annotations' = anns
     /\ doc' = ApplyChanges(cs, doc)
     /\ done' = HistoryDone(done, cs, FALSE, <<>>, Was("load", -1))
     /\ undone' = HistoryDone(undone, cs, FALSE, <<>>, Was("load", -1))
     /\ tracked' = SyncEffect(MapAnnotations(tracked, cs), anns)
     /\ timerQueue' = tq.q
     /\ dismissTimers' = tq.map
     /\ hitAge' = AgesAfter({}, tq)
     /\ last' = Did("load", -1)
     /\ UNCHANGED annotationsByFile

SwitchFile(path) == LoadFile(path) /\ UNCHANGED aiVars

\* parseAnnotationsFromAIResponse: every quoted text is located at its first
\* occurrence in the analysed content (indexOf), a range already annotated is
\* skipped, and ids count from 0 in each response.
IndexOf(content, text) ==
  LET at == {i \in 0..(Len(content) - Len(text)) : Slice(content, i, i + Len(text)) = text}
  IN IF at = {} THEN -1 ELSE CHOOSE i \in at : \A j \in at : i <= j

Ranges(content) ==
  {r \in (0..Len(content)) \X (0..Len(content)) :
     r[1] < r[2] /\ IndexOf(content, Slice(content, r[1], r[2])) = r[1]}

RECURSIVE RangeSeqs(_, _)
RangeSeqs(content, k) ==
  IF k = 0 THEN {<<>>}
  ELSE UNION {{Append(s, r) : r \in Ranges(content) \ {s[i] : i \in 1..Len(s)}} :
                s \in RangeSeqs(content, k - 1)}

ParseResults(content) ==
  {[i \in 1..Len(s) |-> Ann(i - 1, s[i][1], s[i][2])] :
     s \in UNION {RangeSeqs(content, k) : k \in 1..MaxParsed}}

\* A chat reply arrives: the store's list is replaced by the parsed one, and
\* the sync effect runs.
ChatAnalysis(parsed) ==
  /\ activeFilePath # NoFile
  /\ ops < MaxOps
  /\ ops' = ops + 1
  /\ annotations' = parsed
  /\ annotationsByFile' = ByFileAfterSet(annotationsByFile, activeFilePath, parsed)
  /\ tracked' = SyncEffect(tracked, parsed)
  /\ last' = Did("analysis", -1)
  /\ UNCHANGED <<doc, done, undone, timerQueue, dismissTimers, hitAge, activeFilePath, activeFileContent>>
  /\ UNCHANGED aiVars

\* The dismiss button of a feedback card.
UserDismiss(id) ==
  LET tq == CancelPendingDismiss(Timers, id)
      anns == Without(annotations, id)
  IN /\ HasId(annotations, id)
     /\ timerQueue' = tq.q
     /\ dismissTimers' = tq.map
     /\ hitAge' = AgesAfter({}, tq)
     /\ annotations' = anns
     /\ annotationsByFile' = ByFileAfterRemove(annotationsByFile, activeFilePath, anns)
     /\ tracked' = SyncEffect(tracked, anns)
     /\ last' = [Did("dismiss", id) EXCEPT !.age = hitAge[id]]
     /\ UNCHANGED <<doc, done, undone, activeFilePath, activeFileContent, ops>>
     /\ UNCHANGED aiVars

\* The "Clear all" button of the feedback panel, shown while the active
\* list is not empty: clearAnnotations, then the sync effect runs on the
\* empty list.
ClearAll ==
  /\ annotations # <<>>
  /\ annotations' = <<>>
  /\ annotationsByFile' = ByFileAfterClear(annotationsByFile, activeFilePath)
  /\ tracked' = SyncEffect(tracked, <<>>)
  /\ last' = Did("clearAll", -1)
  /\ UNCHANGED <<doc, done, undone, timerQueue, dismissTimers, hitAge, activeFilePath,
                 activeFileContent, ops>>
  /\ UNCHANGED aiVars

\* ------------------------------------- the chat, the requests, the session
\* What scheduleSave's getData returns.
SessionData ==
  [activeFilePath |-> activeFilePath, annotationsByFile |-> annotationsByFile,
   chatSessionsByFile |-> chatSessionsByFile]

\* scheduleSave on the timer state sv = [q, h]: the timer _sessionTimer
\* names is cleared and a new one is set.
SaveAfterSchedule(sv) ==
  LET cleared == SelectSeq(sv.q, LAMBDA tm : tm.h # sv.h)
      h == FreeHandle(cleared)
  IN [q |-> Append(cleared, [h |-> h, left |-> SAVE_TICKS]), h |-> h]

RECURSIVE SaveAfterCalls(_, _)
SaveAfterCalls(sv, n) == IF n = 0 THEN sv ELSE SaveAfterCalls(SaveAfterSchedule(sv), n - 1)

\* A store action that calls scheduleSave n times (n > 0).
ScheduleSave(n) ==
  LET sv == SaveAfterCalls([q |-> saveQueue, h |-> sessionTimer], n)
  IN /\ saveQueue' = sv.q
     /\ sessionTimer' = sv.h
     /\ saveAge' = [save |-> 0, change |-> 0,
                    writes |-> IF saveQueue = <<>> THEN 0 ELSE saveAge.writes,
                    wrote |-> FALSE]
     /\ UNCHANGED session

\* A store action that changes persisted state and does not call
\* scheduleSave.
ChangedUnsaved ==
  /\ saveAge' = [saveAge EXCEPT !.change = 0, !.wrote = FALSE]
  /\ UNCHANGED <<saveQueue, sessionTimer, session>>

\* A renderer step that leaves the persisted state alone.
NoSave ==
  /\ saveAge' = [saveAge EXCEPT !.wrote = FALSE]
  /\ UNCHANGED <<saveQueue, sessionTimer, session>>

\* A timer that is due runs before anything else does in the renderer.
NoDueSave == \A i \in 1..Len(saveQueue) : saveQueue[i].left > 0

\* An age 500 ms later; ages are counted up to one tick past the delay, and
\* -1 is the age of what has not happened.
Aged(age) == IF age < 0 \/ age > SAVE_TICKS THEN age ELSE age + 1

\* 500 ms pass.
SaveTick ==
  /\ saveQueue # <<>>
  /\ NoDueSave
  /\ saveQueue' = [i \in 1..Len(saveQueue) |-> [saveQueue[i] EXCEPT !.left = @ - 1]]
  /\ saveAge' = [saveAge EXCEPT !.save = Aged(@), !.change = Aged(@), !.wrote = FALSE]
  /\ UNCHANGED <<doc, tracked, done, undone, timerQueue, dismissTimers, activeFilePath,
                 activeFileContent, annotations, annotationsByFile, ops, last, hitAge,
                 chatHistory, chatSessionsByFile, isAILoading, aiError, requests,
                 listeners, channel, mainStreams, sessionTimer, session, atRequest>>

\* The callback of scheduleSave runs: writeSession(getData()), getData
\* reading the store as it is now.
SessionWrite ==
  /\ saveQueue # <<>>
  /\ saveQueue[1].left = 0
  /\ session' = SessionData
  /\ saveQueue' = Tail(saveQueue)
  /\ saveAge' = [saveAge EXCEPT !.writes = @ + 1, !.wrote = TRUE]
  /\ UNCHANGED <<doc, tracked, done, undone, timerQueue, dismissTimers, activeFilePath,
                 activeFileContent, annotations, annotationsByFile, ops, last, hitAge,
                 chatHistory, chatSessionsByFile, isAILoading, aiError, requests,
                 listeners, channel, mainStreams, sessionTimer, atRequest>>

Modes == {"style", "critique"}

Message(role) == [role |-> role, content |-> <<>>]

\* A streamAIMessage call: who made it, the path and the document content
\* its caller holds, what its chunk callback has received and which
\* stream's done or error event settled it (0 while it is pending).  For a
\* card's analysis also its `cancelled` flag, the number of times it has
\* called onUpdate and whether it has put its result in the cache.
Request(kind, mode, id) ==
  [kind |-> kind, mode |-> mode, id |-> id, status |-> "pending", acc |-> <<>>,
   path |-> activeFilePath, content |-> activeFileContent, endedBy |-> 0,
   cancelled |-> FALSE, updates |-> 0, cached |-> FALSE]

IsPanel(r) == requests[r].kind # "card"

Listening == {listeners[i] : i \in 1..Len(listeners)}

PanelListeners == {r \in Listening : IsPanel(r)}

\* tooltipAnalysisCache.get(id)
Cached(id) ==
  \E r \in 1..Len(requests) :
    requests[r].kind = "card" /\ requests[r].id = id /\ requests[r].cached

\* setAnalysisMode
ByFileAfterMode(byFile, path, anns) ==
  IF path = NoFile THEN byFile
  ELSE [byFile EXCEPT ![path] = [has |-> TRUE, annotations |-> anns]]

\* appendToLastAssistantMessage, once for every callback that calls it.
RECURSIVE AppendTimes(_, _, _)
AppendTimes(hist, chunk, n) ==
  IF n = 0 THEN hist
  ELSE AppendTimes(IF hist # <<>> /\ hist[Len(hist)].role = "assistant"
                     THEN [hist EXCEPT ![Len(hist)].content = Append(@, chunk)]
                   ELSE hist,
                   chunk, n - 1)

\* loadSession: the per-file annotation states a session file can hold.
Sessions ==
  {NoSession.annotationsByFile,
   [NoSession.annotationsByFile EXCEPT !["A"] = [has |-> TRUE, annotations |-> <<Ann(0, 0, 1)>>]],
   [NoSession.annotationsByFile EXCEPT
      !["A"] = [has |-> TRUE, annotations |-> <<[Ann(0, 0, 1) EXCEPT !.applied = TRUE]>>]]}

\* The state after construction and loadSession, the session naming no
\* active file.
InitStore ==
  /\ doc = <<>>
  /\ tracked = <<>>
  /\ done = <<>>
  /\ undone = <<>>
  /\ timerQueue = <<>>
  /\ dismissTimers = [id \in AnnIds |-> 0]
  /\ activeFilePath = NoFile
  /\ activeFileContent = <<>>
  /\ annotations = <<>>
  /\ annotationsByFile \in Sessions
  /\ ops = 0
  /\ last = NoOp
  /\ hitAge = [id \in AnnIds |-> NoHit]
  /\ chatHistory = <<>>
  /\ chatSessionsByFile = [p \in Paths |-> <<>>]
  /\ isAILoading = FALSE
  /\ aiError = "null"
  /\ requests = <<>>
  /\ listeners = <<>>
  /\ channel = <<>>
  /\ mainStreams = <<>>
  /\ saveQueue = <<>>
  /\ sessionTimer = 0
  /\ session = [NoSession EXCEPT !.annotationsByFile = annotationsByFile]
  /\ saveAge = NoAge
  /\ atRequest = NoBefore

\* A file is opened while no request is pending: setActiveFile with its
\* scheduleSave, and the editor's effects.
OpenFile(path) ==
  /\ listeners = <<>>
  /\ ops < MaxOpens
  /\ NoDueSave
  /\ LoadFile(path)
  /\ chatHistory' = chatSessionsByFile[path]
  /\ ScheduleSave(1)
  /\ UNCHANGED <<chatSessionsByFile, isAILoading, aiError, requests, channel, mainStreams,
                 atRequest, listeners>>

\* The user opens another file than the one the panel's pending request was
\* sent for: setActiveFile with its scheduleSave, and the editor's effects.
StreamSwitch(path) ==
  /\ \E r \in PanelListeners : requests[r].path = activeFilePath
  /\ NoDueSave
  /\ LoadFile(path)
  /\ chatHistory' = chatSessionsByFile[path]
  /\ ScheduleSave(1)
  /\ UNCHANGED <<chatSessionsByFile, isAILoading, aiError, requests, channel, mainStreams,
                 atRequest, listeners>>

\* The user edits the document while the panel's request streams.
StreamEdit(fromA, toA, insert) ==
  /\ isAILoading
  /\ ops < MaxOpens
  /\ NoDueSave
  /\ UserEdit(fromA, toA, insert)

\* The synchronous part of sendMessage (the chat panel) and of
\* runAIAnalysis (the toolbar, which sets the analysis mode first): the two
\* messages are added, the handlers are put on the channels and the main
\* process is invoked.
StartPanel(kind, mode) ==
  LET hist == chatHistory \o <<Message("user"), Message("assistant")>>
  IN /\ activeFilePath # NoFile
     /\ ~isAILoading
     /\ Len(requests) < MaxRequests
     /\ NoDueSave
     /\ atRequest' = [annotations |-> annotations, annotationsByFile |-> annotationsByFile]
     /\ annotationsByFile' = IF kind = "toolbar"
                               THEN ByFileAfterMode(annotationsByFile, activeFilePath, annotations)
                             ELSE annotationsByFile
     /\ aiError' = "null"
     /\ chatHistory' = hist
     /\ chatSessionsByFile' = [chatSessionsByFile EXCEPT ![activeFilePath] = hist]
     /\ isAILoading' = TRUE
     /\ requests' = Append(requests, Request(kind, mode, -1))
     /\ listeners' = Append(listeners, Len(requests) + 1)
     /\ mainStreams' = Append(mainStreams, [on |-> TRUE, sent |-> 0])
     /\ ScheduleSave(1)
     /\ last' = Did("request", -1)
     /\ UNCHANGED <<doc, tracked, done, undone, timerQueue, dismissTimers, activeFilePath,
                    activeFileContent, annotations, ops, hitAge, channel>>

SendMessage == StartPanel("chat", "none")

RunAIAnalysis(mode) == StartPanel("toolbar", mode)

\* analyseAnnotation(ann, onUpdate), called by a feedback card or by the
\* hover tooltip for an annotation without a cached analysis.
AnalyseCard(id) ==
  /\ HasId(annotations, id)
  /\ ~Cached(id)
  /\ Len(requests) < MaxRequests
  /\ NoDueSave
  /\ requests' = Append(requests, Request("card", "none", id))
  /\ listeners' = Append(listeners, Len(requests) + 1)
  /\ mainStreams' = Append(mainStreams, [on |-> TRUE, sent |-> 0])
  /\ NoSave
  /\ UNCHANGED <<doc, tracked, done, undone, timerQueue, dismissTimers, activeFilePath,
                 activeFileContent, annotations, annotationsByFile, ops, last, hitAge,
                 chatHistory, chatSessionsByFile, isAILoading, aiError, channel, atRequest>>

\* The cancel function that analyseAnnotation returned is called, by the
\* tooltip that is destroyed or the card that is closed, while the call is
\* pending.
CancelAnalysis(r) ==
  /\ r \in Listening
  /\ requests[r].kind = "card"
  /\ ~requests[r].cancelled
  /\ NoDueSave
  /\ requests' = [requests EXCEPT ![r].cancelled = TRUE]
  /\ NoSave
  /\ UNCHANGED <<doc, tracked, done, undone, timerQueue, dismissTimers, activeFilePath,
                 activeFileContent, annotations, annotationsByFile, ops, last, hitAge,
                 chatHistory, chatSessionsByFile, isAILoading, aiError, channel, atRequest,
                 listeners, mainStreams>>

\* The ai:streamMessage handler of the main process: every chunk of the
\* stream is sent on ai:chunk, then ai:done is sent, or ai:error when the
\* stream throws.  No event names the call it belongs to.
MainSend(r, type, n) ==
  /\ r <= Len(mainStreams)
  /\ mainStreams[r].on
  /\ channel' = Append(channel, [type |-> type, req |-> r, n |-> n])
  /\ UNCHANGED <<doc, tracked, done, undone, timerQueue, dismissTimers, activeFilePath,
                 activeFileContent, annotations, annotationsByFile, ops, last, hitAge,
                 chatHistory, chatSessionsByFile, isAILoading, aiError, requests,
                 listeners, saveQueue, sessionTimer, session, saveAge, atRequest>>

MainChunk(r) ==
  /\ MainSend(r, "chunk", mainStreams[r].sent + 1)
  /\ mainStreams[r].sent < MaxChunks
  /\ mainStreams' = [mainStreams EXCEPT ![r].sent = @ + 1]

MainDone(r) ==
  /\ MainSend(r, "done", 0)
  /\ mainStreams' = [mainStreams EXCEPT ![r].on = FALSE]

MainError(r) ==
  /\ MainSend(r, "error", 0)
  /\ mainStreams' = [mainStreams EXCEPT ![r].on = FALSE]

\* ipcRenderer emits an event to every handler on its channel: the calls
\* whose handlers receive event e.
HandlersOf(e) == Listening

\* Mutant: the chunk callback of a card's analysis does not look at the
\* cancelled flag.
OnChunkAfterCancel(req, chunk) == [req EXCEPT !.acc = Append(@, chunk), !.updates = @ + 1]

\* The chunk callback of a call: a card's analysis that is not cancelled adds
\* the chunk to its text and calls onUpdate, the panel's appends it to the
\* last message.
OnChunk(req, chunk) ==
  IF req.kind # "card" THEN [req EXCEPT !.acc = Append(@, chunk)]
  ELSE IF req.cancelled THEN req
  ELSE [req EXCEPT !.acc = Append(@, chunk), !.updates = @ + 1]

\* The request after the done or error event e reached its handlers: the
\* promise is settled, and a card's analysis that is not cancelled calls
\* onUpdate, after caching its text when the promise resolved.
OnSettled(req, e, status) ==
  LET settled == [req EXCEPT !.status = status, !.endedBy = e.req]
  IN IF req.kind # "card" \/ req.cancelled THEN settled
     ELSE [settled EXCEPT !.updates = @ + 1, !.cached = (status = "done")]

\* The requests after the done or error event e reached the handlers in hs.
Settled(hs, e, status) ==
  [r \in 1..Len(requests) |-> IF r \in hs THEN OnSettled(requests[r], e, status) ELSE requests[r]]

\* An ai:chunk event is delivered: every chunk handler calls its onChunk.
DeliverChunk ==
  LET e == channel[1]
      hs == HandlersOf(e)
      panels == Cardinality({r \in hs : IsPanel(r)})
  IN /\ channel # <<>>
     /\ e.type = "chunk"
     /\ NoDueSave
     /\ channel' = Tail(channel)
     /\ requests' = [r \in 1..Len(requests) |->
                       IF r \in hs THEN OnChunk(requests[r], [req |-> e.req, n |-> e.n])
                       ELSE requests[r]]
     /\ chatHistory' = AppendTimes(chatHistory, [req |-> e.req, n |-> e.n], panels)
     /\ chatSessionsByFile' = IF panels > 0 /\ activeFilePath # NoFile
                                THEN [chatSessionsByFile EXCEPT ![activeFilePath] = chatHistory']
                              ELSE chatSessionsByFile
     /\ IF panels > 0 THEN ChangedUnsaved ELSE NoSave
     /\ UNCHANGED <<doc, tracked, done, undone, timerQueue, dismissTimers, activeFilePath,
                    activeFileContent, annotations, annotationsByFile, ops, last, hitAge,
                    isAILoading, aiError, listeners, mainStreams, atRequest>>

\* The lists the continuation of the panel's request can parse from the
\* reply: none when no panel handler is reached or the message is empty.
DoneResults ==
  IF channel # <<>> /\ \E r \in HandlersOf(channel[1]) : IsPanel(r)
       /\ chatHistory # <<>> /\ chatHistory[Len(chatHistory)].role = "assistant"
       /\ chatHistory[Len(chatHistory)].content # <<>>
    THEN {<<>>} \cup UNION {ParseResults(requests[r].content) : r \in PanelListeners}
  ELSE {<<>>}

\* An ai:done event is delivered: every done handler takes its call's
\* handlers off the channels and resolves its promise.  A card caches its
\* text; the panel's request parses the last message, stores what it found
\* (the toolbar keeps the annotations of other types) and clears the
\* loading flag.
DeliverDone(parsed) ==
  LET e == channel[1]
      hs == HandlersOf(e)
      panel == \E r \in hs : IsPanel(r)
      pr == CHOOSE r \in hs : IsPanel(r)
      existing == IF requests[pr].kind = "toolbar"
                    THEN SelectSeq(annotations, LAMBDA a : a.type # requests[pr].mode)
                  ELSE <<>>
      merged == existing \o parsed
      stored == panel /\ parsed # <<>>
  IN /\ channel # <<>>
     /\ e.type = "done"
     /\ NoDueSave
     /\ channel' = Tail(channel)
     /\ listeners' = SelectSeq(listeners, LAMBDA r : r \notin hs)
     /\ requests' = Settled(hs, e, "done")
     /\ isAILoading' = IF panel THEN FALSE ELSE isAILoading
     /\ annotations' = IF stored THEN merged ELSE annotations
     /\ annotationsByFile' = IF stored THEN ByFileAfterSet(annotationsByFile, activeFilePath, merged)
                             ELSE annotationsByFile
     /\ tracked' = IF stored THEN SyncEffect(tracked, merged) ELSE tracked
     /\ last' = IF stored THEN Did("analysis", -1) ELSE last
     /\ IF stored THEN ScheduleSave(IF requests[pr].kind = "chat" THEN 3 ELSE 2)
        ELSE IF panel THEN ScheduleSave(1)
        ELSE NoSave
     /\ UNCHANGED <<doc, done, undone, timerQueue, dismissTimers, activeFilePath,
                    activeFileContent, ops, hitAge, chatHistory, chatSessionsByFile, aiError,
                    mainStreams, atRequest>>

\* An ai:error event is delivered: every error handler takes its call's
\* handlers off and rejects its promise; the panel's request sets aiError
\* and clears the loading flag.
DeliverError ==
  LET e == channel[1]
      hs == HandlersOf(e)
      panel == \E r \in hs : IsPanel(r)
  IN /\ channel # <<>>
     /\ e.type = "error"
     /\ NoDueSave
     /\ channel' = Tail(channel)
     /\ listeners' = SelectSeq(listeners, LAMBDA r : r \notin hs)
     /\ requests' = Settled(hs, e, "failed")
     /\ isAILoading' = IF panel THEN FALSE ELSE isAILoading
     /\ aiError' = IF panel THEN "error" ELSE aiError
     /\ last' = IF panel THEN Did("streamError", CHOOSE r \in hs : IsPanel(r)) ELSE last
     /\ IF panel THEN ScheduleSave(1) ELSE NoSave
     /\ UNCHANGED <<doc, tracked, done, undone, timerQueue, dismissTimers, activeFilePath,
                    activeFileContent, annotations, annotationsByFile, ops, hitAge,
                    chatHistory, chatSessionsByFile, mainStreams, atRequest>>

NextStore ==
  \/ \E path \in Paths : OpenFile(path)
  \/ SendMessage
  \/ \E mode \in Modes : RunAIAnalysis(mode)
  \/ \E id \in AnnIds : AnalyseCard(id)
  \/ \E r \in 1..MaxRequests : MainChunk(r)
  \/ \E r \in 1..MaxRequests : MainDone(r)
  \/ \E r \in 1..MaxRequests : MainError(r)
  \/ DeliverChunk
  \/ \E parsed \in DoneResults : DeliverDone(parsed)
  \/ DeliverError
  \/ SaveTick
  \/ SessionWrite

\* The store, the requests and the session writer, from a restored session.
SpecStore == InitStore /\ [][NextStore]_vars

\* -------------------------------------------------------- the parser
\* The characters of the documents and quotes the parser is run on: a
\* letter and the whitespace character.
ParseChars == {"a", " "}

RECURSIVE ParseTexts(_)
ParseTexts(n) ==
  IF n = 0 THEN {<<>>}
  ELSE LET shorter == ParseTexts(n - 1)
       IN shorter \cup {Append(t, c) : t \in {x \in shorter : Len(x) = n - 1}, c \in ParseChars}

\* String.prototype.slice with 0 <= from: both ends are clamped to the length.
JsSlice(str, from, to) ==
  LET a == Min(from, Len(str))
      b == Max(a, Min(to, Len(str)))
  IN SubSeq(str, a + 1, b)

\* str.replace(/\s+/g, ' ')
RECURSIVE Collapse(_)
Collapse(str) ==
  IF Len(str) <= 1 THEN str
  ELSE LET rest == Collapse(Tail(str))
       IN IF str[1] = " " /\ rest[1] = " " THEN rest ELSE <<str[1]>> \o rest

\* str.trim()
RECURSIVE Trim(_)
Trim(str) ==
  IF str = <<>> THEN str
  ELSE IF str[1] = " " THEN Trim(Tail(str))
  ELSE IF str[Len(str)] = " " THEN Trim(SubSeq(str, 1, Len(str) - 1))
  ELSE str

StartsWith(str, prefix) == Len(prefix) <= Len(str) /\ SubSeq(str, 1, Len(prefix)) = prefix

\* str.split(' ')
RECURSIVE Split(_)
Split(str) ==
  IF \A i \in 1..Len(str) : str[i] # " " THEN <<str>>
  ELSE LET k == CHOOSE i \in 1..Len(str) : str[i] = " " /\ \A j \in 1..(i - 1) : str[j] # " "
       IN <<SubSeq(str, 1, k - 1)>> \o Split(SubSeq(str, k + 1, Len(str)))

\* words.join(' ')
RECURSIVE Join(_)
Join(words) ==
  IF words = <<>> THEN <<>>
  ELSE IF Len(words) = 1 THEN words[1]
  ELSE words[1] \o <<" ">> \o Join(Tail(words))

\* content.lastIndexOf(text), for the mutant of Locate.
RECURSIVE LastIndexOfFrom(_, _, _)
LastIndexOfFrom(content, text, start) ==
  IF start + Len(text) > Len(content) THEN -1
  ELSE LET later == LastIndexOfFrom(content, text, start + 1)
       IN IF later # -1 THEN later
          ELSE IF JsSlice(content, start, start + Len(text)) = text THEN start
          ELSE -1

\* content.indexOf(text, start): the scan from `start` upwards.
RECURSIVE IndexOfFrom(_, _, _)
IndexOfFrom(content, text, start) ==
  IF start + Len(text) > Len(content) THEN -1
  ELSE IF JsSlice(content, start, start + Len(text)) = text THEN start
  ELSE IndexOfFrom(content, text, start + 1)

\* The loop of findNormalized from `searchFrom`.
RECURSIVE FindNormalizedFrom(_, _, _, _, _)
FindNormalizedFrom(document, normalized, words, anchor, searchFrom) ==
  IF searchFrom >= Len(document) THEN -1
  ELSE LET idx == IndexOfFrom(document, words[1], searchFrom)
           slice == Collapse(JsSlice(document, idx, idx + Len(normalized) * 2))
           docSlice == Collapse(JsSlice(document, idx, idx + Len(anchor) + ANCHOR_SLACK))
       IN IF idx = -1 THEN -1
          ELSE IF StartsWith(slice, normalized) THEN idx
          ELSE IF StartsWith(docSlice, anchor) THEN idx
          ELSE FindNormalizedFrom(document, normalized, words, anchor, idx + 1)

\* Mutant: a normalized quote of any number of words is searched for.
FindNormalizedAnyLength(document, normalized) ==
  LET words == Split(normalized)
      anchor == Join(SubSeq(words, 1, Min(ANCHOR_WORDS, Len(words))))
  IN FindNormalizedFrom(document, normalized, words, anchor, 0)

\* findNormalized
FindNormalized(document, normalized) ==
  LET words == Split(normalized)
      anchor == Join(SubSeq(words, 1, Min(ANCHOR_WORDS, Len(words))))
  IN IF Len(words) < MIN_WORDS THEN -1
     ELSE FindNormalizedFrom(document, normalized, words, anchor, 0)

\* Mutant: the exact pass takes the last occurrence.
LocateLast(documentContent, quotedText) ==
  LET docIndex == LastIndexOfFrom(documentContent, quotedText, 0)
  IN IF docIndex = -1 THEN FindNormalized(documentContent, Collapse(quotedText))
     ELSE docIndex

\* The two passes of the parser's loop on one quoted text: the exact match,
\* then the normalized one.
Locate(documentContent, quotedText) ==
  LET docIndex == IndexOfFrom(documentContent, quotedText, 0)
  IN IF docIndex = -1 THEN FindNormalized(documentContent, Collapse(quotedText))
     ELSE docIndex

\* A piece of a response outside its quoted texts: one of the words
\* classifyType looks for, in lower case or capitalised, or other text.
Segment(word, upper, len) == [word |-> word, upper |-> upper, len |-> len]

\* The number of characters of each word.
WordLen(word) ==
  CASE word = "passive" -> 7
    [] word = "consistency" -> 11
    [] word = "character" -> 9
    [] word = "timeline" -> 8
    [] word = "repeated" -> 8
    [] word = "contradiction" -> 13

ConsistencyWords == {"consistency", "character", "timeline", "repeated", "contradiction"}

\* A match of quotePattern: the trimmed quoted text (match[1].trim()) and
\* the pieces of the response between the match before it and this one.
Match(text, before) == [text |-> text, before |-> before]

\* aiResponse.slice(0, match.index) for the k-th match: the pieces before
\* it, the earlier quoted texts with their quote marks included.
RECURSIVE Preceding(_, _)
Preceding(aiResponse, k) ==
  IF k = 0 THEN <<>>
  ELSE LET earlier == IF k = 1 THEN <<>>
                      ELSE Append(Preceding(aiResponse, k - 1),
                                  Segment("quote", FALSE, Len(aiResponse[k - 1].text) + 2))
       IN earlier \o aiResponse[k].before

\* The pieces that lie whole within the last `chars` characters of `segs`.
RECURSIVE LastChars(_, _)
LastChars(segs, chars) ==
  IF segs = <<>> \/ segs[Len(segs)].len > chars THEN <<>>
  ELSE Append(LastChars(SubSeq(segs, 1, Len(segs) - 1), chars - segs[Len(segs)].len),
              segs[Len(segs)])

\* str.toLowerCase()
ToLowerCase(segs) == [i \in 1..Len(segs) |-> [segs[i] EXCEPT !.upper = FALSE]]

\* str.includes(word), for a word in lower case.
Includes(segs, word) == \E i \in 1..Len(segs) : segs[i].word = word /\ ~segs[i].upper

\* aiResponse.slice(contextStart, match.index).toLowerCase()
ContextBefore(aiResponse, k) == ToLowerCase(LastChars(Preceding(aiResponse, k), CONTEXT_CHARS))

\* Mutant: the consistency words are looked for before "passive".
ClassifyTypeConsistencyFirst(contextBefore) ==
  IF \E w \in ConsistencyWords : Includes(contextBefore, w) THEN "consistency"
  ELSE IF Includes(contextBefore, "passive") THEN "passive_voice"
  ELSE "style"

\* classifyType
ClassifyType(contextBefore) ==
  IF Includes(contextBefore, "passive") THEN "passive_voice"
  ELSE IF \E w \in ConsistencyWords : Includes(contextBefore, w) THEN "consistency"
  ELSE "style"

NoOverride == "undefined"

\* Mutant: a quote that is not found is annotated at the offset -1.
ParseQuoteKeepMissing(found, aiResponse, k, documentContent, overrideType) ==
  LET quotedText == aiResponse[k].text
      docIndex == Locate(documentContent, quotedText)
      alreadyAnnotated == \E i \in 1..Len(found) :
                            found[i].from = docIndex /\ found[i].to = docIndex + Len(quotedText)
      type == IF overrideType # NoOverride THEN overrideType
              ELSE ClassifyType(ContextBefore(aiResponse, k))
  IN IF alreadyAnnotated THEN found
     ELSE Append(found, [id |-> Len(found), type |-> type, from |-> docIndex,
                         to |-> docIndex + Len(quotedText), applied |-> FALSE,
                         dismissed |-> FALSE, matchedText |-> quotedText])

\* Mutant: a range that is already annotated is annotated again.
ParseQuoteTwice(found, aiResponse, k, documentContent, overrideType) ==
  LET quotedText == aiResponse[k].text
      docIndex == Locate(documentContent, quotedText)
      type == IF overrideType # NoOverride THEN overrideType
              ELSE ClassifyType(ContextBefore(aiResponse, k))
  IN IF docIndex = -1 THEN found
     ELSE Append(found, [id |-> Len(found), type |-> type, from |-> docIndex,
                         to |-> docIndex + Len(quotedText), applied |-> FALSE,
                         dismissed |-> FALSE, matchedText |-> quotedText])

\* One pass of the parser's loop: the annotations found so far and the
\* k-th match of the response.  The next id is the number of annotations
\* found so far.
ParseQuote(found, aiResponse, k, documentContent, overrideType) ==
  LET quotedText == aiResponse[k].text
      docIndex == Locate(documentContent, quotedText)
      alreadyAnnotated == \E i \in 1..Len(found) :
                            found[i].from = docIndex /\ found[i].to = docIndex + Len(quotedText)
      type == IF overrideType # NoOverride THEN overrideType
              ELSE ClassifyType(ContextBefore(aiResponse, k))
  IN IF docIndex = -1 \/ alreadyAnnotated THEN found
     ELSE Append(found, [id |-> Len(found), type |-> type, from |-> docIndex,
                         to |-> docIndex + Len(quotedText), applied |-> FALSE,
                         dismissed |-> FALSE, matchedText |-> quotedText])

\* parseAnnotationsFromAIResponse on a response given as the sequence of
\* the matches of quotePattern.
RECURSIVE ParseFrom(_, _, _, _, _)
ParseFrom(found, aiResponse, k, documentContent, overrideType) ==
  IF k > Len(aiResponse) THEN found
  ELSE ParseFrom(ParseQuote(found, aiResponse, k, documentContent, overrideType),
                 aiResponse, k + 1, documentContent, overrideType)

ParseAnnotationsFromAIResponse(aiResponse, documentContent, overrideType) ==
  ParseFrom(<<>>, aiResponse, 1, documentContent, overrideType)

\* The quoted texts a response can hold, and the responses: in the parser
\* specification nothing but quoted texts.
Quotes == {q \in ParseTexts(MaxQuoteLen) : Trim(q) = q}

Responses == UNION {[1..n -> {Match(q, <<>>) : q \in Quotes}] : n \in 1..MaxQuotes}

\* The active lists a reply can find in the store.
ExistingLists == {<<>>, <<Ann(0, 0, 0)>>}

\* addUserMessage(text, attachments): the user's message with the number
\* of files attached to it.
UserMessage(attachments) == [role |-> "user", content |-> <<>>, attachments |-> attachments]

\* The chat panel's request has streamed a reply on file A and the stream
\* has just ended.
InitParse ==
  /\ doc \in ParseTexts(MaxDocLen)
  /\ activeFileContent = doc
  /\ activeFilePath = "A"
  /\ annotations \in ExistingLists
  /\ tracked = annotations
  /\ annotationsByFile = [NoSession.annotationsByFile EXCEPT
                            !["A"] = [has |-> annotations # <<>>, annotations |-> annotations]]
  /\ \E response \in Responses :
       chatHistory = <<UserMessage(0), [role |-> "assistant", content |-> response]>>
  /\ chatSessionsByFile = [NoSession.chatSessionsByFile EXCEPT !["A"] = chatHistory]
  /\ isAILoading = TRUE
  /\ aiError = "null"
  /\ done = <<>>
  /\ undone = <<>>
  /\ timerQueue = <<>>
  /\ dismissTimers = [id \in AnnIds |-> 0]
  /\ hitAge = [id \in AnnIds |-> NoHit]
  /\ ops = 0
  /\ last = NoOp
  /\ requests = <<>>
  /\ listeners = <<>>
  /\ channel = <<>>
  /\ mainStreams = <<>>
  /\ saveQueue = <<>>
  /\ sessionTimer = 0
  /\ session = NoSession
  /\ saveAge = NoAge
  /\ atRequest = NoBefore

\* sendMessage after the stream: the last assistant message is parsed
\* against the document content, a non-empty result replaces the active
\* list, and the loading flag is cleared.
ParseResponse ==
  LET lastMsg == chatHistory[Len(chatHistory)]
      overrideType == IF chatHistory[Len(chatHistory) - 1].attachments > 0 THEN "custom"
                      ELSE NoOverride
      parsed == ParseAnnotationsFromAIResponse(lastMsg.content, activeFileContent, overrideType)
      stored == parsed # <<>>
  IN /\ isAILoading
     /\ Len(chatHistory) >= 2
     /\ lastMsg.role = "assistant" /\ lastMsg.content # <<>>
     /\ annotations' = IF stored THEN parsed ELSE annotations
     /\ annotationsByFile' = IF stored THEN ByFileAfterSet(annotationsByFile, activeFilePath, parsed)
                             ELSE annotationsByFile
     /\ tracked' = IF stored THEN SyncEffect(tracked, parsed) ELSE tracked
     /\ isAILoading' = FALSE
     /\ last' = Did("parsed", -1)
     /\ ScheduleSave(IF stored THEN 3 ELSE 1)
     /\ UNCHANGED <<doc, done, undone, timerQueue, dismissTimers, activeFilePath,
                    activeFileContent, ops, hitAge, chatHistory, chatSessionsByFile, aiError,
                    requests, listeners, channel, mainStreams, atRequest>>

NextParse == ParseResponse

\* The parser on every small document and response.
SpecParse == InitParse /\ [][NextParse]_vars

\* The pieces a response is made of outside its quoted texts, and the runs
\* of them before a match.
Segments ==
  {Segment(w, u, WordLen(w)) : w \in {"passive"} \cup ConsistencyWords, u \in BOOLEAN}
    \cup {Segment("other", FALSE, CONTEXT_CHARS)}

RECURSIVE Contexts(_)
Contexts(n) ==
  IF n = 0 THEN {<<>>}
  ELSE LET shorter == Contexts(n - 1)
       IN shorter \cup {Append(c, g) : c \in {x \in shorter : Len(x) = n - 1}, g \in Segments}

\* The responses of the classification specification: a quote of the
\* document's first word, then possibly a quote of that word again or of
\* the whole document, each after some context.
TypedResponses ==
  {<<Match(<<"a">>, c)>> : c \in Contexts(MaxContext)}
    \cup {<<Match(<<"a">>, c1), Match(q, c2)>> :
            c1 \in Contexts(MaxContext), c2 \in Contexts(MaxContext),
            q \in {<<"a">>, <<"a", " ", "a">>}}

\* The chat panel's request, sent with or without an attached file, has
\* streamed a reply on a document of two words.
InitTyped ==
  /\ doc = <<"a", " ", "a">>
  /\ activeFileContent = doc
  /\ activeFilePath = "A"
  /\ annotations = <<>>
  /\ tracked = <<>>
  /\ annotationsByFile = NoSession.annotationsByFile
  /\ \E response \in TypedResponses, attachments \in 0..1 :
       chatHistory = <<UserMessage(attachments), [role |-> "assistant", content |-> response]>>
  /\ chatSessionsByFile = [NoSession.chatSessionsByFile EXCEPT !["A"] = chatHistory]
  /\ isAILoading = TRUE
  /\ aiError = "null"
  /\ done = <<>>
  /\ undone = <<>>
  /\ timerQueue = <<>>
  /\ dismissTimers = [id \in AnnIds |-> 0]
  /\ hitAge = [id \in AnnIds |-> NoHit]
  /\ ops = 0
  /\ last = NoOp
  /\ requests = <<>>
  /\ listeners = <<>>
  /\ channel = <<>>
  /\ mainStreams = <<>>
  /\ saveQueue = <<>>
  /\ sessionTimer = 0
  /\ session = NoSession
  /\ saveAge = NoAge
  /\ atRequest = NoBefore

NextTyped == ParseResponse

\* The parser's classification on every small response.
SpecTyped == InitTyped /\ [][NextTyped]_vars

\* loadSession: file A restored with MaxPair annotations, as one response
\* gave them.
PairSessions ==
  {[NoSession.annotationsByFile EXCEPT
      !["A"] = [has |-> TRUE, annotations |-> [i \in 1..Len(s) |-> Ann(i - 1, s[i][1], s[i][2])]]] :
     s \in RangeSeqs(FileContent("A"), MaxPair)}

InitPair ==
  /\ InitAI
  /\ doc = <<>>
  /\ tracked = <<>>
  /\ done = <<>>
  /\ undone = <<>>
  /\ timerQueue = <<>>
  /\ dismissTimers = [id \in AnnIds |-> 0]
  /\ activeFilePath = NoFile
  /\ activeFileContent = <<>>
  /\ annotations = <<>>
  /\ annotationsByFile \in PairSessions
  /\ ops = 0
  /\ last = NoOp
  /\ hitAge = [id \in AnnIds |-> NoHit]

NextPair ==
  \/ \E path \in Paths : SwitchFile(path)
  \/ \E fromA \in 0..Len(doc), toA \in 0..Len(doc), insert \in TextsUpTo(MaxIns) :
       fromA <= toA /\ UserEdit(fromA, toA, insert)
  \/ \E ann \in Held, suggestion \in TextsUpTo(MaxIns) : ApplyAnnotation(ann, suggestion)

\* The editor on a file with several annotations: edits and applies.
SpecPair == InitPair /\ [][NextPair]_vars

\* [...annotations].sort((a, b) => a.from - b.from): the sort is stable, an
\* annotation goes after those before it in the list with an equal `from`.
RECURSIVE SortByFrom(_)
SortByFrom(anns) ==
  IF anns = <<>> THEN <<>>
  ELSE LET sorted == SortByFrom(SubSeq(anns, 1, Len(anns) - 1))
           ann == anns[Len(anns)]
           k == Cardinality({i \in 1..Len(sorted) : sorted[i].from <= ann.from})
       IN SubSeq(sorted, 1, k) \o <<ann>> \o SubSeq(sorted, k + 1, Len(sorted))

\* Mutant: the ranges are added in list order.
BuildDecoSetUnsorted(anns, docLen) ==
  LET clamped == [i \in 1..Len(anns) |->
                    LET from == Max(0, Min(anns[i].from, docLen))
                    IN [from |-> from, to |-> Max(from, Min(anns[i].to, docLen)),
                        id |-> anns[i].id, type |-> anns[i].type]]
  IN SelectSeq(clamped, LAMBDA r : r.from < r.to)

\* buildDecoSet: the ranges of the decoration set, in the order they are
\* added to the builder.
BuildDecoSet(anns, docLen) ==
  LET sorted == SortByFrom(anns)
      clamped == [i \in 1..Len(sorted) |->
                    LET from == Max(0, Min(sorted[i].from, docLen))
                    IN [from |-> from, to |-> Max(from, Min(sorted[i].to, docLen)),
                        id |-> sorted[i].id, type |-> sorted[i].type]]
  IN SelectSeq(clamped, LAMBDA r : r.from < r.to)

\* Mutant: the decoration set is built from the store's list.
AnnotationFieldOfStore == BuildDecoSet(annotations, Len(doc))

\* annotationField: rebuilt from the tracked list in every transaction that
\* changes the document or carries the set-annotations effect, the only
\* transactions that change the tracked list.
AnnotationField == BuildDecoSet(tracked, Len(doc))

\* loadSession: file A restored with up to MaxPair annotations stored at any
\* positions, also ones that the file on disk no longer has.
DecoSessions ==
  {[NoSession.annotationsByFile EXCEPT
      !["A"] = [has |-> TRUE, annotations |-> [i \in 1..Len(s) |-> Ann(i - 1, s[i][1], s[i][2])]]] :
     s \in UNION {[1..n -> (0..(Len(FileContent("A")) + 1)) \X (0..(Len(FileContent("A")) + 1))] :
                    n \in 0..MaxPair}}

InitDeco ==
  /\ InitAI
  /\ doc = <<>>
  /\ tracked = <<>>
  /\ done = <<>>
  /\ undone = <<>>
  /\ timerQueue = <<>>
  /\ dismissTimers = [id \in AnnIds |-> 0]
  /\ activeFilePath = NoFile
  /\ activeFileContent = <<>>
  /\ annotations = <<>>
  /\ annotationsByFile \in DecoSessions
  /\ ops = 0
  /\ last = NoOp
  /\ hitAge = [id \in AnnIds |-> NoHit]

NextDeco == \E path \in Paths : SwitchFile(path)

\* The decorations of a file whose stored annotations are at any positions,
\* as the files are opened.
SpecDeco == InitDeco /\ [][NextDeco]_vars

NextStream ==
  \/ \E path \in Paths : OpenFile(path)
  \/ \E path \in Paths : StreamSwitch(path)
  \/ \E fromA \in 0..Len(doc), toA \in 0..Len(doc), insert \in TextsUpTo(MaxIns) :
       fromA <= toA /\ StreamEdit(fromA, toA, insert)
  \/ SendMessage
  \/ \E mode \in Modes : RunAIAnalysis(mode)
  \/ \E id \in AnnIds : AnalyseCard(id)
  \/ \E r \in 1..MaxRequests : CancelAnalysis(r)
  \/ \E r \in 1..MaxRequests : MainChunk(r)
  \/ \E r \in 1..MaxRequests : MainDone(r)
  \/ \E r \in 1..MaxRequests : MainError(r)
  \/ DeliverChunk
  \/ \E parsed \in DoneResults : DeliverDone(parsed)
  \/ DeliverError

\* The requests and the user's edits while they stream, with no clock: no
\* session timer comes due.
SpecStream == InitStore /\ [][NextStream]_vars

Next ==
  \/ \E fromA \in 0..Len(doc), toA \in 0..Len(doc), insert \in TextsUpTo(MaxIns) :
       fromA <= toA /\ UserEdit(fromA, toA, insert)
  \/ Tick
  \/ TimerFire
  \/ \E ann \in Held, suggestion \in TextsUpTo(MaxIns) : ApplyAnnotation(ann, suggestion)
  \/ Undo
  \/ Redo
  \/ \E path \in Paths : SwitchFile(path)
  \/ \E parsed \in ParseResults(activeFileContent) : ChatAnalysis(parsed)
  \/ \E id \in AnnIds : UserDismiss(id)
  \/ ClearAll

Spec == Init /\ [][Next]_vars

\* ---------------------------------------------------------------- claims
Top(branch) == branch[Len(branch)]

TimersOf(id) == {i \in 1..Len(timerQueue) : timerQueue[i].id = id}

\* C1: after a user edit (an insertion, a deletion, a replacement, a
\* whole-document replace) every tracked annotation has
\* 0 <= from <= to <= document length.
C1_TrackedInRange ==
  last.op = "edit" =>
    \A i \in 1..Len(tracked) :
      /\ 0 <= tracked[i].from
      /\ tracked[i].from <= tracked[i].to
      /\ tracked[i].to <= Len(doc)

\* The last edit replaced the whole non-empty document while an annotation
\* was tracked.
C1_Witness ==
  /\ last.op = "edit"
  /\ last.tracked # <<>> /\ tracked # <<>>
  /\ last.fromA = 0 /\ last.toA > 0 /\ last.insert # <<>>
  /\ done # <<>> /\ Len(Top(done).changes) = 1

\* C2: an update of the store's list that is not an editor transaction (an
\* analysis result, a dismissal) leaves every id that was tracked at its
\* tracked from/to, whatever position the incoming list holds for it; an id
\* that was not tracked takes the incoming position.
C2_TrackedCopyWins ==
  last.op \in {"analysis", "dismiss"} =>
    /\ Len(tracked) = Len(annotations)
    /\ \A i \in 1..Len(annotations) :
         /\ tracked[i].id = annotations[i].id
         /\ IF HasId(last.tracked, annotations[i].id)
              THEN \E j \in 1..Len(last.tracked) :
                     /\ last.tracked[j].id = annotations[i].id
                     /\ tracked[i].from = last.tracked[j].from
                     /\ tracked[i].to = last.tracked[j].to
            ELSE /\ tracked[i].from = annotations[i].from
                 /\ tracked[i].to = annotations[i].to

\* An analysis result named a tracked id at another position than the
\* tracked one.
C2_Witness ==
  /\ last.op = "analysis"
  /\ \E i \in 1..Len(annotations) :
       /\ HasId(last.tracked, annotations[i].id)
       /\ <<annotations[i].from, annotations[i].to>> # <<tracked[i].from, tracked[i].to>>

\* C3: applying X's suggestion removes X from the tracked list in the
\* transaction that changes the text, and one undo step after it (nothing
\* but time having passed in between) restores the pre-apply document and
\* the pre-apply tracked list.
C3_ApplyThenOneUndo ==
  /\ last.op = "apply" => ~HasId(tracked, last.id)
  /\ (last.op = "undo" /\ last.after = "apply") => (doc = last.doc /\ tracked = last.tracked)

\* C4: at most one timer per annotation id is pending; a pending timer is
\* due EDIT_DISMISS_MS after the last overlapping edit, so a removal is that
\* long after the last overlapping edit and not after the first.
C4_OneTimerFromLastHit ==
  /\ \A id \in AnnIds : Cardinality(TimersOf(id)) <= 1
  /\ \A i \in 1..Len(timerQueue) :
       timerQueue[i].left = EDIT_DISMISS_TICKS - hitAge[timerQueue[i].id].last
  /\ last.op = "autoDismiss" => last.age.last = EDIT_DISMISS_TICKS

\* X was overlapped at t and at t + 600 ms and removed at t + 1800 ms.
C4_Witness ==
  /\ last.op = "autoDismiss"
  /\ last.age.first = EDIT_DISMISS_TICKS + 1
  /\ last.age.last = EDIT_DISMISS_TICKS

\* C5: an annotation whose range a user edit overlaps (changeStart < to and
\* changeEnd > from) stays tracked and in the store's active list with a
\* timer pending, an insertion inside it growing `to` by the inserted
\* length; the timer's removal comes EDIT_DISMISS_MS after the last
\* overlapping edit and leaves the id in neither list.
C5_ActiveUntilExpiry ==
  /\ last.op = "edit" =>
       \A i \in 1..Len(last.tracked) :
         (last.fromA < last.tracked[i].to /\ last.toA > last.tracked[i].from) =>
           /\ i <= Len(tracked)
           /\ tracked[i].id = last.tracked[i].id
           /\ HasId(annotations, last.tracked[i].id)
           /\ TimersOf(last.tracked[i].id) # {}
           /\ (last.fromA = last.toA =>
                 /\ tracked[i].from = last.tracked[i].from
                 /\ tracked[i].to = last.tracked[i].to + Len(last.insert))
  /\ last.op = "autoDismiss" =>
       /\ ~HasId(tracked, last.id)
       /\ ~HasId(annotations, last.id)
       /\ last.age.last = EDIT_DISMISS_TICKS

\* X was overlapped once and removed EDIT_DISMISS_MS later.
C5_Witness ==
  /\ last.op = "autoDismiss"
  /\ HasId(last.tracked, last.id)
  /\ last.age.first = EDIT_DISMISS_TICKS
  /\ ~HasId(tracked, last.id)

\* C6: deleting exactly [from, to) of a tracked annotation leaves it tracked
\* with from = to, and inserting a text at the offset of an annotation of
\* width zero makes its range cover exactly that text.
C6_CollapseAndRegrow ==
  last.op = "edit" =>
    \A i \in 1..Len(last.tracked) :
      LET pre == last.tracked[i]
      IN /\ (last.insert = <<>> /\ pre.from < pre.to /\ last.fromA = pre.from /\ last.toA = pre.to) =>
              /\ i <= Len(tracked) /\ tracked[i].id = pre.id
              /\ tracked[i].from = pre.from /\ tracked[i].to = pre.from
         /\ (last.fromA = last.toA /\ pre.from = pre.to /\ pre.from = last.fromA) =>
              /\ i <= Len(tracked) /\ tracked[i].id = pre.id
              /\ tracked[i].from = pre.from
              /\ tracked[i].to = pre.from + Len(last.insert)

\* The text of an annotation was deleted and the same text was inserted
\* again at that offset: the range covers it.
C6_Witness ==
  /\ last.op = "edit" /\ last.fromA = last.toA
  /\ Len(done) >= 2
  /\ LET prev == done[Len(done) - 1].changes
     IN prev = ChangeOf(LenBefore(prev), last.fromA, last.fromA, last.insert)
  /\ \E i \in 1..Len(tracked) :
       /\ last.tracked[i].from = last.fromA /\ last.tracked[i].to = last.fromA
       /\ tracked[i].from = last.fromA
       /\ tracked[i].to = last.fromA + Len(last.insert)

\* C7: an insertion of n characters at an offset strictly less than `from`
\* moves from and to by n; one at an offset strictly greater than `to`
\* leaves both unchanged.
C7_InsertOutside ==
  (last.op = "edit" /\ last.fromA = last.toA) =>
    \A i \in 1..Len(last.tracked) :
      LET pre == last.tracked[i]
          n == Len(last.insert)
      IN /\ last.fromA < pre.from =>
              (tracked[i].from = pre.from + n /\ tracked[i].to = pre.to + n)
         /\ last.fromA > pre.to =>
              (tracked[i].from = pre.from /\ tracked[i].to = pre.to)

\* A text was inserted strictly before a tracked annotation.
C7_Witness ==
  /\ last.op = "edit" /\ last.fromA = last.toA
  /\ \E i \in 1..Len(last.tracked) :
       /\ last.fromA < last.tracked[i].from
       /\ tracked[i].from = last.tracked[i].from + Len(last.insert)

\* C8: undoing an auto-dismiss that removed X leaves the tracked list and
\* the store's active list equal to the tracked list of just before the
\* dismissal, X at its position in it.
C8_UndoAutoDismiss ==
  (last.op = "undo" /\ last.undid.kind = "autoDismiss" /\ HasId(last.undid.tracked, last.undid.id)) =>
    /\ tracked = last.undid.tracked
    /\ annotations = last.undid.tracked

\* An auto-dismiss that removed X was undone and X is tracked again.
C8_Witness ==
  /\ last.op = "undo" /\ last.undid.kind = "autoDismiss"
  /\ HasId(last.undid.tracked, last.undid.id)
  /\ HasId(tracked, last.undid.id)

\* C9: after an undo or redo that changes the tracked list the store's
\* active list equals the tracked list.
C9_UndoRedoSync ==
  [][((Undo \/ Redo) /\ tracked' # tracked) => annotations' = tracked']_vars

\* An apply was undone: the tracked list has X again.
C9_Witness ==
  /\ last.op = "undo" /\ last.undid.kind = "apply"
  /\ HasId(tracked, last.undid.id)
  /\ annotations = tracked

\* C10: a document load leaves the timers as they are and adds no event to
\* the undo history.
C10_LoadIsSilent ==
  [][(activeFilePath' # activeFilePath) =>
       /\ timerQueue' = timerQueue
       /\ dismissTimers' = dismissTimers
       /\ Len(done') <= Len(done)
       /\ Len(undone') <= Len(undone)]_vars

\* A load replaced the text under a tracked range of the previous file,
\* with events on the undo branch.
C10_Witness ==
  /\ last.op = "load" /\ last.doc # doc
  /\ \E i \in 1..Len(last.tracked) : last.tracked[i].from < last.tracked[i].to
  /\ done # <<>>

ByFileOfActive == annotationsByFile[activeFilePath].annotations

\* C11: a user dismiss of X cancels the auto-dismiss timer pending for X
\* before the removal: afterwards the timer map has no entry for X's id and
\* no callback for it is pending, so none can run.
C11_DismissCancelsTimer ==
  last.op = "dismiss" => (dismissTimers[last.id] = 0 /\ TimersOf(last.id) = {})

\* X was dismissed by the user while its timer was pending.
C11_Witness ==
  /\ last.op = "dismiss"
  /\ last.age.first >= 0
  /\ HasId(last.tracked, last.id)
  /\ TimersOf(last.id) = {}

\* C12: after a user dismiss of X, X is not in the active list and the
\* per-file store of the active file holds X's record with dismissed = true.
C12_DismissedIsArchived ==
  last.op = "dismiss" =>
    /\ ~HasId(annotations, last.id)
    /\ activeFilePath # NoFile
    /\ \E i \in 1..Len(ByFileOfActive) :
         ByFileOfActive[i].id = last.id /\ ByFileOfActive[i].dismissed

\* C13: after apply of X, X is not in the store's active list and the
\* per-file store of the active file holds X's record with applied = true.
C13_AppliedIsArchived ==
  last.op = "apply" =>
    /\ ~HasId(annotations, last.id)
    /\ activeFilePath # NoFile
    /\ \E i \in 1..Len(ByFileOfActive) :
         ByFileOfActive[i].id = last.id /\ ByFileOfActive[i].applied

\* X was tracked and active, and was applied.
C13_Witness ==
  /\ last.op = "apply"
  /\ HasId(last.tracked, last.id)
  /\ last.doc # doc
  /\ \E i \in 1..Len(ByFileOfActive) :
       ByFileOfActive[i].id = last.id /\ ByFileOfActive[i].applied

\* C14: a record held as applied in a file's per-file store is still in that
\* file's store after any step (no step of the model is a clear-archive
\* action).
C14_AppliedStays ==
  [][\A p \in Paths :
       \A i \in 1..Len(annotationsByFile[p].annotations) :
         annotationsByFile[p].annotations[i].applied =>
           \E j \in 1..Len(annotationsByFile'[p].annotations) :
             annotationsByFile'[p].annotations[j] = annotationsByFile[p].annotations[i]]_vars

\* C15: clear all leaves the active list empty and every annotation that
\* was active or archived before it recorded in the per-file store of the
\* active file.
C15_ClearAllArchives ==
  [][ClearAll =>
       /\ annotations' = <<>>
       /\ \A i \in 1..Len(annotations) :
            HasId(annotationsByFile'[activeFilePath].annotations, annotations[i].id)
       /\ \A i \in 1..Len(ByFileOfActive) :
            HasId(annotationsByFile'[activeFilePath].annotations, ByFileOfActive[i].id)]_vars

\* C16: no auto-dismiss timer set while one file was active is pending
\* while another file is the active document.
C16_UnloadCancelsTimers ==
  \A i \in 1..Len(timerQueue) : timerQueue[i].path = activeFilePath

\* C17: after a document edit the from/to the store holds for each active
\* annotation, in the active list and in the per-file store, equal its
\* tracked position.
C17_StoreFollowsEdits ==
  last.op = "edit" =>
    /\ \A i \in 1..Len(annotations) :
         HasId(tracked, annotations[i].id) =>
           /\ annotations[i].from = TrackedById(tracked, annotations[i].id).from
           /\ annotations[i].to = TrackedById(tracked, annotations[i].id).to
    /\ activeFilePath # NoFile =>
         \A i \in 1..Len(ByFileOfActive) :
           (~ByFileOfActive[i].applied /\ HasId(tracked, ByFileOfActive[i].id)) =>
             /\ ByFileOfActive[i].from = TrackedById(tracked, ByFileOfActive[i].id).from
             /\ ByFileOfActive[i].to = TrackedById(tracked, ByFileOfActive[i].id).to


\* The per-file annotation lists of a store.
ListsOf(byFile) == [p \in Paths |-> byFile[p].annotations]

\* C18: when an AI stream ends with an error, the active annotations and
\* the per-file annotation store are as they were before the request, the
\* text streamed so far is still the content of the last assistant message,
\* aiError is set and isAILoading is false again.
C18_ErrorLeavesStore ==
  last.op = "streamError" =>
    /\ annotations = atRequest.annotations
    /\ ListsOf(annotationsByFile) = ListsOf(atRequest.annotationsByFile)
    /\ chatHistory # <<>>
    /\ chatHistory[Len(chatHistory)].role = "assistant"
    /\ chatHistory[Len(chatHistory)].content = requests[last.id].acc
    /\ aiError # "null"
    /\ ~isAILoading

\* C19: a chunk reaches only the callback of the request whose stream
\* produced it, and a request is completed or failed only by the done or
\* error event of its own stream.
C19_ChunksReachOwnRequest ==
  \A r \in 1..Len(requests) :
    /\ \A i \in 1..Len(requests[r].acc) : requests[r].acc[i].req = r
    /\ requests[r].endedBy \in {0, r}

\* C20: a burst of actions that change the persisted state, each less than
\* 1500 ms after the one before, gives one session write, 1500 ms after the
\* last of them, and the write carries the store as it is when it fires.
C20_OneWritePerBurst ==
  saveAge.wrote =>
    /\ saveAge.change = SAVE_TICKS
    /\ saveAge.writes = 1
    /\ session = SessionData


\* C26: the range that apply replaces is the current tracked range of X,
\* also when edits have moved X since the store recorded its position.
C26_ApplyReplacesTrackedRange ==
  (last.op = "apply" /\ HasId(last.tracked, last.id)) =>
    /\ last.fromA = TrackedById(last.tracked, last.id).from
    /\ last.toA = TrackedById(last.tracked, last.id).to

\* C27: an insertion of n characters exactly at the `from` of a non-empty
\* tracked annotation moves `from` forward by n and keeps the width.
C27_InsertAtFromPushes ==
  (last.op = "edit" /\ last.fromA = last.toA) =>
    \A i \in 1..Len(last.tracked) :
      LET pre == last.tracked[i]
      IN (pre.from < pre.to /\ last.fromA = pre.from) =>
           /\ tracked[i].from = pre.from + Len(last.insert)
           /\ tracked[i].to - tracked[i].from = pre.to - pre.from

\* C28: an insertion exactly at the `to` of a non-empty tracked annotation
\* leaves `to` where it was and keeps the width.
C28_InsertAtToStaysOut ==
  (last.op = "edit" /\ last.fromA = last.toA) =>
    \A i \in 1..Len(last.tracked) :
      LET pre == last.tracked[i]
      IN (pre.from < pre.to /\ last.fromA = pre.to) =>
           /\ tracked[i].to = pre.to
           /\ tracked[i].to - tracked[i].from = pre.to - pre.from

\* An annotation of the list, at its position mapped through the changes.
KeptIn(anns, a, cs) ==
  \E j \in 1..Len(anns) :
    /\ anns[j].id = a.id
    /\ anns[j].from = MapPos(cs, a.from, -1)
    /\ anns[j].to = MapPos(cs, a.to, 1)

\* C29: an external update of the annotation set (analysis results, a user
\* dismiss, a clear) records no undo step, and the undo of an earlier apply
\* or auto-dismiss right after an analysis keeps the annotations the
\* analysis added, in the tracked list and in the store's active list.
C29_UndoKeepsExternalUpdate ==
  [][/\ (last'.op \in {"analysis", "dismiss", "clearAll"} /\ last' # last)
          => (done' = done /\ undone' = undone)
     /\ (last.op = "analysis" /\ last'.op = "undo" /\ last'.undid.kind \in {"apply", "autoDismiss"})
          => \A i \in 1..Len(tracked) :
               /\ KeptIn(tracked', tracked[i], Top(done).changes)
               /\ KeptIn(annotations', tracked[i], Top(done).changes)]_vars

\* C30: no id is in the active list and recorded with applied = true in the
\* per-file store of the active file at once.
C30_ActiveXorApplied ==
  activeFilePath # NoFile =>
    \A i \in 1..Len(annotations) :
      \A j \in 1..Len(ByFileOfActive) :
        ByFileOfActive[j].id = annotations[i].id => ~ByFileOfActive[j].applied


DistinctIds(anns) ==
  \A i \in 1..Len(anns) : \A j \in 1..Len(anns) : i # j => anns[i].id # anns[j].id

\* C23: the annotations of the active list have pairwise distinct ids, and
\* so have the records of each file's per-file list, also after several
\* analysis runs on the same file.
C23_DistinctIds ==
  /\ DistinctIds(annotations)
  /\ \A p \in Paths : DistinctIds(annotationsByFile[p].annotations)


\* C24: the annotations created from an AI response index the document
\* content as it is when the response completes: they are a result of
\* locating quotes in that content.
C24_LocatedInCurrentContent ==
  last.op = "analysis" =>
    \E parsed \in ParseResults(activeFileContent) :
      /\ Len(parsed) <= Len(annotations)
      /\ SubSeq(annotations, Len(annotations) - Len(parsed) + 1, Len(annotations)) = parsed


\* The change that the last apply made.
LastApplied == ChangeOf(Len(last.doc), last.fromA, last.toA, last.insert)

\* C25: after apply of X every other annotation that was tracked is still
\* tracked, at the position it had just before the apply mapped through the
\* replacement of X's range by the suggestion.
C25_OthersMappedThroughApply ==
  last.op = "apply" =>
    \A i \in 1..Len(last.tracked) :
      LET pre == last.tracked[i]
      IN pre.id # last.id =>
           /\ HasId(tracked, pre.id)
           /\ TrackedById(tracked, pre.id).from \in
                {MapPos(LastApplied, pre.from, -1), MapPos(LastApplied, pre.from, 1)}
           /\ TrackedById(tracked, pre.id).to \in
                {MapPos(LastApplied, pre.to, -1), MapPos(LastApplied, pre.to, 1)}


\* The response that was parsed, and the offsets at which a text occurs in
\* the document exactly.
Response ==
  [k \in 1..Len(chatHistory[Len(chatHistory)].content) |->
     chatHistory[Len(chatHistory)].content[k].text]

\* What the parser returns for the response and the request's attachments.
Parsed ==
  ParseAnnotationsFromAIResponse(chatHistory[Len(chatHistory)].content, activeFileContent,
                                 IF chatHistory[Len(chatHistory) - 1].attachments > 0
                                 THEN "custom" ELSE NoOverride)

ExactAt(q) ==
  {i \in 0..(Len(activeFileContent) - Len(q)) : Slice(activeFileContent, i, i + Len(q)) = q}

\* C21: a quoted text that occurs in the document is located at its first
\* exact occurrence, whatever the normalized pass would find, also when it
\* occurs more than once; the annotation of the first quote covers it
\* there.
C21_FirstExactOccurrence ==
  last.op = "parsed" =>
    \A k \in 1..Len(Response) :
      LET q == Response[k]
          at == Locate(activeFileContent, q)
      IN ExactAt(q) # {} =>
           /\ at \in ExactAt(q)
           /\ \A j \in ExactAt(q) : at <= j
           /\ k = 1 => (annotations[1].from = at /\ annotations[1].to = at + Len(q))

\* The first quote of a parsed response occurs twice or more, and its
\* annotation is at the first occurrence.
C21_Witness ==
  /\ last.op = "parsed"
  /\ Cardinality(ExactAt(Response[1])) > 1
  /\ Response[1] # <<>>
  /\ \A j \in ExactAt(Response[1]) : annotations[1].from <= j

Located == {k \in 1..Len(Response) : Locate(activeFileContent, Response[k]) # -1}

\* C22: a quote that neither pass finds gives no annotation and no error:
\* the request ends normally, every annotation of the result is at a quote
\* that was located, and when no quote is located the active list and the
\* per-file list are as they were.
C22_UnlocatableDropped ==
  last.op = "parsed" =>
    /\ aiError = "null" /\ ~isAILoading
    /\ Located = {} => (annotations = last.tracked /\ ByFileOfActive = last.tracked)
    /\ Located # {} =>
         /\ Len(annotations) <= Cardinality(Located)
         /\ \A i \in 1..Len(annotations) :
              \E k \in Located :
                /\ annotations[i].from = Locate(activeFileContent, Response[k])
                /\ annotations[i].to = annotations[i].from + Len(Response[k])

\* A response with no locatable quote was parsed while the active list held
\* an annotation.
C22_Witness ==
  /\ last.op = "parsed"
  /\ Located = {}
  /\ annotations # <<>>


\* C37: every annotation of a parsed response satisfies
\* 0 <= from < to <= length of the document it was parsed against, also
\* when its quote was located by the normalized pass.
C37_ParsedInRange ==
  last.op = "parsed" =>
    \A i \in 1..Len(Parsed) :
      LET a == Parsed[i]
      IN 0 <= a.from /\ a.from < a.to /\ a.to <= Len(activeFileContent)


\* The characters from the n-th piece to the end of `segs`.
RECURSIVE LenFrom(_, _)
LenFrom(segs, n) == IF n > Len(segs) THEN 0 ELSE segs[n].len + LenFrom(segs, n + 1)

\* C40: an annotation parsed without an override type is "passive_voice"
\* when the 200 characters before its quote contain "passive" in any case,
\* also when they contain a consistency keyword; otherwise "consistency"
\* when they contain one of consistency, character, timeline, repeated,
\* contradiction in any case; otherwise "style".  With an override type
\* every annotation has that type.
C40_TypeFromContext ==
  last.op = "parsed" =>
    \A i \in 1..Len(annotations) :
      LET k == CHOOSE k \in 1..Len(Response) :
                 /\ Response[k] = annotations[i].matchedText
                 /\ \A j \in 1..(k - 1) : Response[j] # Response[k]
          segs == Preceding(chatHistory[Len(chatHistory)].content, k)
          near == {n \in 1..Len(segs) : LenFrom(segs, n) <= CONTEXT_CHARS}
          has(w) == \E n \in near : segs[n].word = w
      IN IF chatHistory[Len(chatHistory) - 1].attachments > 0
           THEN annotations[i].type = "custom"
         ELSE IF has("passive") THEN annotations[i].type = "passive_voice"
         ELSE IF \E w \in ConsistencyWords : has(w) THEN annotations[i].type = "consistency"
         ELSE annotations[i].type = "style"


\* A response was parsed with no override type; the context of its first
\* quote holds "Passive" and a consistency keyword, and the annotation is
\* of type passive_voice.
C40_Witness ==
  /\ last.op = "parsed"
  /\ chatHistory[1].attachments = 0
  /\ \E m, n \in 1..Len(chatHistory[2].content[1].before) :
       /\ chatHistory[2].content[1].before[m].word = "passive"
       /\ chatHistory[2].content[1].before[m].upper
       /\ chatHistory[2].content[1].before[n].word \in ConsistencyWords
  /\ annotations[1].type = "passive_voice"


\* The matches of the response that resolve to the range [from, to).
ResolvingTo(from, to) ==
  {k \in 1..Len(Response) :
     /\ Locate(activeFileContent, Response[k]) = from
     /\ from # -1
     /\ from + Len(Response[k]) = to}

\* C38: the parser returns no two annotations with the same (from, to);
\* of the quotes that resolve to one range the first in the response is the
\* one that is kept.
C38_FirstOfEqualRanges ==
  last.op = "parsed" =>
    /\ \A i, j \in 1..Len(Parsed) :
         i # j => (Parsed[i].from # Parsed[j].from \/ Parsed[i].to # Parsed[j].to)
    /\ \A i \in 1..Len(Parsed) :
         /\ ResolvingTo(Parsed[i].from, Parsed[i].to) # {}
         /\ \A k \in ResolvingTo(Parsed[i].from, Parsed[i].to) :
              (\A j \in ResolvingTo(Parsed[i].from, Parsed[i].to) : k <= j)
                => Parsed[i].matchedText = Response[k]

\* A response whose two quotes differ and resolve to the same range was
\* parsed: one annotation, with the text of the first quote.
C38_Witness ==
  /\ last.op = "parsed"
  /\ Len(Response) = 2
  /\ Response[1] # Response[2]
  /\ Len(annotations) = 1
  /\ ResolvingTo(annotations[1].from, annotations[1].to) = {1, 2}
  /\ annotations[1].matchedText = Response[1]


\* The words of a trimmed text: one more than its runs of whitespace.
WordCount(q) ==
  1 + Cardinality({i \in 1..Len(q) : q[i] = " " /\ (i = 1 \/ q[i - 1] # " ")})

\* C39: a quote that has no exact occurrence in the document and fewer
\* than 3 words once its whitespace is collapsed is not found, and gives no
\* annotation, also when the document holds its words with other
\* whitespace between them.
C39_ShortQuoteNotNormalized ==
  last.op = "parsed" =>
    \A k \in 1..Len(Response) :
      (ExactAt(Response[k]) = {} /\ WordCount(Response[k]) < MIN_WORDS) =>
        /\ Locate(activeFileContent, Response[k]) = -1
        /\ \A i \in 1..Len(Parsed) : Parsed[i].matchedText # Response[k]

\* A response quoting two words that the document holds with more
\* whitespace between them was parsed, and no annotation was made.
C39_Witness ==
  /\ last.op = "parsed"
  /\ Len(Response) = 1
  /\ WordCount(Response[1]) = 2
  /\ ExactAt(Response[1]) = {}
  /\ IndexOfFrom(Collapse(activeFileContent), Collapse(Response[1]), 0) # -1
  /\ Parsed = <<>>
  /\ annotations = last.tracked


\* The place in the tracked list of the annotation a range was built from.
PlaceOf(id) == CHOOSE i \in 1..Len(tracked) : tracked[i].id = id

\* C35: the ranges of the decoration set are ascending by `from`, ranges
\* with an equal `from` are in the order of the list, every range has
\* 0 <= from < to <= document length, and there is exactly one range for
\* each annotation whose clamped width is not zero, overlapping or equal
\* ranges included.
C35_DecorationsSorted ==
  LET deco == AnnotationField
      wide == {i \in 1..Len(tracked) :
                 Max(0, Min(tracked[i].from, Len(doc))) < Min(tracked[i].to, Len(doc))}
  IN /\ Len(deco) = Cardinality(wide)
     /\ \A i \in wide :
          \E p \in 1..Len(deco) :
            /\ deco[p].id = tracked[i].id
            /\ deco[p].from = Max(0, Min(tracked[i].from, Len(doc)))
            /\ deco[p].to = Min(tracked[i].to, Len(doc))
     /\ \A p \in 1..Len(deco) : 0 <= deco[p].from /\ deco[p].from < deco[p].to /\ deco[p].to <= Len(doc)
     /\ \A p, q \in 1..Len(deco) :
          p < q => \/ deco[p].from < deco[q].from
                   \/ deco[p].from = deco[q].from /\ PlaceOf(deco[p].id) < PlaceOf(deco[q].id)

\* Two annotations that overlap are tracked, the first in the list starts
\* after the second and ends past the end of the document; both have a
\* range.
C35_Witness ==
  /\ last.op = "load"
  /\ Len(tracked) = 2
  /\ tracked[1].from > tracked[2].from
  /\ tracked[1].from < tracked[2].to
  /\ tracked[1].to > Len(doc)
  /\ Len(AnnotationField) = 2


\* C36: a tracked annotation whose width is zero after clamping has no range
\* in the decoration set while it stays in the tracked list, and it has one
\* again, over its clamped range, as soon as its width is not zero.
C36_ZeroWidthNotRendered ==
  \A i \in 1..Len(tracked) :
    LET from == Max(0, Min(tracked[i].from, Len(doc)))
        to == Max(from, Min(tracked[i].to, Len(doc)))
        shown == {p \in 1..Len(AnnotationField) : AnnotationField[p].id = tracked[i].id}
    IN /\ from = to => shown = {}
       /\ from < to => \E p \in shown : AnnotationField[p].from = from /\ AnnotationField[p].to = to

\* An annotation that was tracked with width zero, and had no range, got a
\* width by the last edit and has a range.
C36_Witness ==
  /\ last.op = "edit"
  /\ \E i \in 1..Len(last.tracked) :
       /\ last.tracked[i].from = last.tracked[i].to
       /\ BuildDecoSet(last.tracked, MaxLen) = <<>>
       /\ HasId(tracked, last.tracked[i].id)
       /\ TrackedById(tracked, last.tracked[i].id).from < TrackedById(tracked, last.tracked[i].id).to
       /\ \E p \in 1..Len(AnnotationField) : AnnotationField[p].id = last.tracked[i].id


\* C31: after a switch to another file the tracked list is that file's
\* stored, non-applied annotations at their stored positions: no annotation
\* of the file that was left is tracked, and none replaces the record or
\* the position of an annotation of the new file that has the same id.
C31_SwitchTracksStored ==
  last.op = "load" =>
    tracked = SelectSeq(annotationsByFile[activeFilePath].annotations, LAMBDA a : ~a.applied)


\* The panel's request that the last done event settled.
LastPanel ==
  CHOOSE r \in 1..Len(requests) :
    /\ IsPanel(r) /\ requests[r].status = "done"
    /\ \A q \in (r + 1)..Len(requests) : ~(IsPanel(q) /\ requests[q].status = "done")

\* C32: the annotations parsed from a response are stored under the path
\* the request was sent for: when the response completes after a switch to
\* another file, the active list and the per-file entry of the file that is
\* then active are as they were.
C32_StoredUnderRequestPath ==
  last.op = "analysis" =>
    \A p \in Paths \ {requests[LastPanel].path} :
      /\ annotationsByFile[p] = atRequest.annotationsByFile[p]
      /\ activeFilePath = p =>
           annotations = SelectSeq(annotationsByFile[p].annotations, LAMBDA a : ~a.applied)


\* C33: the panel's request that received text extracts annotations only
\* after the done event of its own stream, when every chunk that stream
\* produced has been received and nothing else, never on a part of the
\* response; a request whose stream failed extracts nothing.
C33_ExtractionOnFullResponse ==
  /\ \A r \in 1..Len(requests) :
       (IsPanel(r) /\ requests[r].status = "done" /\ requests[r].acc # <<>>) =>
         /\ requests[r].endedBy = r
         /\ ~mainStreams[r].on
         /\ requests[r].acc = [n \in 1..mainStreams[r].sent |-> [req |-> r, n |-> n]]
  /\ (last.op = "streamError" /\ activeFilePath = requests[last.id].path) =>
       annotations = atRequest.annotations


\* C34: once the cancel function of a card's analysis has been called, the
\* analysis calls onUpdate no more and puts no result in the cache.
C34_CancelledStaysSilent ==
  [][\A r \in 1..Len(requests) :
       requests[r].cancelled =>
         /\ requests'[r].updates = requests[r].updates
         /\ requests'[r].cached = requests[r].cached
         /\ ~requests[r].cached]_vars

\* A card's analysis that had called onUpdate was cancelled, and the done
\* event has settled it since: it is not cached.
C34_Witness ==
  \E r \in 1..Len(requests) :
    /\ requests[r].kind = "card"
    /\ requests[r].cancelled
    /\ requests[r].updates > 0
    /\ requests[r].status = "done"
    /\ ~Cached(requests[r].id)

====
